---- MODULE Spec2Model ----
(***************************************************************************)
(* A model of the CPU core of dosbox-staging: the paging-aware memory      *)
(* accessors of include/paging.h, the 0F opcode table of the normal core   *)
(* (cpu/core_normal/prefix_0f.h) and the FPU translator of the dynamic     *)
(* recompiler (cpu/core_dynrec/dyn_fpu.h).                                 *)
(***************************************************************************)
EXTENDS Integers, Sequences, FiniteSets, TLC

(***************************************************************************)
(* Program constants.                                                      *)
(***************************************************************************)
MEM_PAGE_SIZE == 4096

\* How many accesses one run of the accessor specification performs.
MaxOps == 1
\* How many guest writes one run of the self-modifying-code specification performs.
MaxWrites == 1

NullPt == "null"
HostPt == "host"

PFLAG_HASCODE32 == "HASCODE32"
PFLAG_HASCODE16 == "HASCODE16"
PFLAG_HASCODE == {PFLAG_HASCODE32, PFLAG_HASCODE16}

\* The modelled window of linear memory: the last eight bytes of page 0 and
\* the first eight bytes of page 1 (paging is off: linear = physical).
Pages == {0, 1}
Addrs == (MEM_PAGE_SIZE - 8) .. (MEM_PAGE_SIZE + 15)
\* Start addresses of accesses: every width has an address on each side of
\* its page-straddling limit, and no access leaves the window.
AccAddrs == {4088, 4089, 4092, 4093, 4094, 4095, 4096}
Widths == {1, 2, 4, 8}

PageOf(address) == address \div MEM_PAGE_SIZE
\* address & 0xfff
PageOffset(address) == address % MEM_PAGE_SIZE

\* A guest value of w bytes is the sequence of its bytes, low byte first
\* (the host is little-endian: WORDS_BIGENDIAN is not defined).
ByteOf(val, i) == val[i + 1]

\* host_readb/w/d/q: the w bytes at address
LoadBytes(memory, address, w) == [i \in 1 .. w |-> memory[address + i - 1]]

\* host_writeb/w/d/q: store the w bytes of val at address
StoreBytes(memory, address, w, val) ==
  [a \in DOMAIN memory |->
     IF a >= address /\ a < address + w THEN val[a - address + 1]
     ELSE memory[a]]

\* The guest value written by test writes of width w: byte i is i + 1.
PatternVal(w) == [i \in 1 .. w |-> i]

InitMem == [a \in Addrs |-> 160 + (a % 16)]

VARIABLES
  tlb,      \* paging.tlb: read, write, readhandler, writehandler per page
  pflags,   \* flags of the page's write handler (PFLAG_*)
  mem,      \* host memory behind the pages
  cache,    \* the recompiler's cached blocks
  acc,      \* the last memory access and what it did
  exec,     \* the last block execution
  nops,     \* accesses (SpecAcc) or writes (Spec) so far
  cpu,      \* registers, segment and control registers, flags, mode
  ins,      \* the last instruction of the 0F table and how it ended
  fpu,      \* top, tags, registers, status and control word
  blk,      \* the block the recompiler is translating or running
  run,      \* the last translated FPU instruction that ran
  twin,     \* the same access made through the host pointers
  pte,      \* a page table entry (X86PageEntry) and the last operation on it
  serial,   \* the direct serial port: receive state, retry count, events
  ipx       \* the IPX driver: open sockets, ECBs, the last call

memvars == <<tlb, pflags, mem, cache, acc, exec, nops>>

cpuvars == <<cpu, ins>>

\* what a step of the memory subsystem leaves alone
fpuvars == <<fpu, blk, run>>

\* the page entry and the devices
devvars == <<pte, serial, ipx>>

nonmemvars == <<cpuvars, fpuvars, twin, devvars>>

vars == <<tlb, pflags, mem, cache, acc, exec, nops, cpu, ins, fpu, blk, run, twin,
          pte, serial, ipx>>

(***************************************************************************)
(* Page handlers and TLB entries                                           *)
(***************************************************************************)
HandlerKinds == {"ram", "rom", "code", "fault"}

\* The shapes a TLB entry takes: what PAGING_LinkPage, PAGING_LinkPage_ReadOnly,
\* MEM_SetPageHandler and the init handler leave in paging.tlb for a page.
TlbEntry(kind) ==
  CASE kind = "direct"   -> [read |-> HostPt, write |-> HostPt, readhandler |-> "ram", writehandler |-> "ram"]
    [] kind = "handler"  -> [read |-> NullPt, write |-> NullPt, readhandler |-> "ram", writehandler |-> "ram"]
    [] kind = "code"     -> [read |-> HostPt, write |-> NullPt, readhandler |-> "ram", writehandler |-> "code"]
    [] kind = "rom"      -> [read |-> HostPt, write |-> NullPt, readhandler |-> "ram", writehandler |-> "rom"]
    [] kind = "readonly" -> [read |-> HostPt, write |-> NullPt, readhandler |-> "ram", writehandler |-> "fault"]
    [] kind = "fault"    -> [read |-> NullPt, write |-> NullPt, readhandler |-> "fault", writehandler |-> "fault"]

TlbOf(kinds) ==
  [read         |-> [p \in Pages |-> TlbEntry(kinds[p]).read],
   write        |-> [p \in Pages |-> TlbEntry(kinds[p]).write],
   readhandler  |-> [p \in Pages |-> TlbEntry(kinds[p]).readhandler],
   writehandler |-> [p \in Pages |-> TlbEntry(kinds[p]).writehandler]]

get_tlb_read(address) == tlb.read[address \div MEM_PAGE_SIZE]
get_tlb_write(address) == tlb.write[address \div MEM_PAGE_SIZE]
get_tlb_readhandler(address) == tlb.readhandler[address \div MEM_PAGE_SIZE]
get_tlb_writehandler(address) == tlb.writehandler[address \div MEM_PAGE_SIZE]

\* The memory machine an accessor runs on: host memory, the block cache, the
\* events of the access (host accesses, handler calls), the value read (or
\* the caller's *val), the checked accessors' return value and a raised fault.
Ev(k, d, address, w, h) == [k |-> k, d |-> d, a |-> address, w |-> w, h |-> h]
Log(m, e) == [m EXCEPT !.ev = Append(@, e)]

\* host_readX(tlb_addr + address): dereferences the host pointer
host_read(m, tlb_addr, address, w) ==
  IF tlb_addr = NullPt THEN Log(m, Ev("null_deref", "r", address, w, "-"))
  ELSE [Log(m, Ev("host", "r", address, w, "-")) EXCEPT !.val = LoadBytes(m.mem, address, w)]

\* host_writeX(tlb_addr + address, val)
host_write(m, tlb_addr, address, w, val) ==
  IF tlb_addr = NullPt THEN Log(m, Ev("null_deref", "w", address, w, "-"))
  ELSE [Log(m, Ev("host", "w", address, w, "-")) EXCEPT !.mem = StoreBytes(m.mem, address, w, val)]

\* PageHandler::readb/w/d/q of the handler h
PageHandler_read(m, h, address, w) ==
  LET m1 == Log(m, Ev("handler", "r", address, w, h)) IN
  IF h = "fault" THEN [m1 EXCEPT !.fault = TRUE]
  ELSE [m1 EXCEPT !.val = LoadBytes(m.mem, address, w)]

\* PageHandler::writeb/w/d/q of the handler h; the code page handler evicts
\* the blocks of the page before it stores
PageHandler_write(m, h, address, w, val) ==
  LET m1 == Log(m, Ev("handler", "w", address, w, h)) IN
  CASE h = "fault" -> [m1 EXCEPT !.fault = TRUE]
    [] h = "rom"   -> m1
    [] h = "code"  -> [m1 EXCEPT !.cache = {b \in @ : b.page # PageOf(address)},
                                 !.mem = StoreBytes(m.mem, address, w, val)]
    [] OTHER       -> [m1 EXCEPT !.mem = StoreBytes(m.mem, address, w, val)]

\* PageHandler::readX_checked: true reports failure and leaves *val alone
PageHandler_read_checked(m, h, address, w) ==
  LET m1 == Log(m, Ev("handler", "r", address, w, h)) IN
  IF h = "fault" THEN [m1 EXCEPT !.ret = TRUE]
  ELSE [m1 EXCEPT !.val = LoadBytes(m.mem, address, w), !.ret = FALSE]

\* PageHandler::writeX_checked
PageHandler_write_checked(m, h, address, w, val) ==
  LET m1 == Log(m, Ev("handler", "w", address, w, h)) IN
  CASE h = "fault" -> [m1 EXCEPT !.ret = TRUE]
    [] h = "rom"   -> [m1 EXCEPT !.ret = FALSE]
    [] h = "code"  -> [m1 EXCEPT !.cache = {b \in @ : b.page # PageOf(address)},
                                 !.mem = StoreBytes(m.mem, address, w, val),
                                 !.ret = FALSE]
    [] OTHER       -> [m1 EXCEPT !.mem = StoreBytes(m.mem, address, w, val), !.ret = FALSE]


(***************************************************************************)
(* The inline accessors of paging.h                                        *)
(***************************************************************************)
mem_readb_inline(m, address) ==
  LET tlb_addr == get_tlb_read(address) IN
  IF tlb_addr # NullPt THEN host_read(m, tlb_addr, address, 1)
  ELSE PageHandler_read(m, get_tlb_readhandler(address), address, 1)

\* mem_writeb_inline that stores only through the pointer
mem_writeb_inline_pointeronly(m, address, val) ==
  LET tlb_addr == get_tlb_write(address) IN
  IF tlb_addr # NullPt THEN host_write(m, tlb_addr, address, 1, val)
  ELSE Log(m, Ev("handler", "w", address, 1, get_tlb_writehandler(address)))

mem_writeb_inline(m, address, val) ==
  LET tlb_addr == get_tlb_write(address) IN
  IF tlb_addr # NullPt THEN host_write(m, tlb_addr, address, 1, val)
  ELSE PageHandler_write(m, get_tlb_writehandler(address), address, 1, val)

\* mem_readb_checked returning true after the read through the pointer
mem_readb_checked_true(m, address) ==
  LET tlb_addr == get_tlb_read(address) IN
  IF tlb_addr # NullPt THEN [host_read(m, tlb_addr, address, 1) EXCEPT !.ret = TRUE]
  ELSE PageHandler_read_checked(m, get_tlb_readhandler(address), address, 1)

mem_readb_checked(m, address) ==
  LET tlb_addr == get_tlb_read(address) IN
  IF tlb_addr # NullPt THEN [host_read(m, tlb_addr, address, 1) EXCEPT !.ret = FALSE]
  ELSE PageHandler_read_checked(m, get_tlb_readhandler(address), address, 1)

mem_writeb_checked(m, address, val) ==
  LET tlb_addr == get_tlb_write(address) IN
  IF tlb_addr # NullPt THEN [host_write(m, tlb_addr, address, 1, val) EXCEPT !.ret = FALSE]
  ELSE PageHandler_write_checked(m, get_tlb_writehandler(address), address, 1, val)

\* mem_unalignedreadw/d/q: byte reads in ascending order, reassembled
\* little-endian; a fault ends the access
RECURSIVE unaligned_read_bytes(_, _, _, _, _, _)
unaligned_read_bytes(m, address, w, i, value, oldval) ==
  IF i = w THEN [m EXCEPT !.val = value]
  ELSE LET m1 == mem_readb_inline(m, address + i) IN
       IF m1.fault THEN [m1 EXCEPT !.val = oldval]
       ELSE unaligned_read_bytes(m1, address, w, i + 1, Append(value, m1.val[1]), oldval)

mem_unalignedread(m, address, w) ==
  unaligned_read_bytes(Log(m, Ev("unaligned", "r", address, w, "-")), address, w, 0, <<>>, m.val)

\* mem_unalignedwritew/d/q: byte writes in ascending order, low byte first
RECURSIVE unaligned_write_bytes(_, _, _, _, _)
unaligned_write_bytes(m, address, w, i, val) ==
  IF i = w THEN m
  ELSE LET m1 == mem_writeb_inline(m, address + i, <<ByteOf(val, i)>>) IN
       IF m1.fault THEN m1
       ELSE unaligned_write_bytes(m1, address, w, i + 1, val)

mem_unalignedwrite(m, address, w, val) ==
  unaligned_write_bytes(Log(m, Ev("unaligned", "w", address, w, "-")), address, w, 0, val)

\* mem_unalignedreadw/d/q_checked: the first failing byte read ends the
\* access with true and *val as it was
RECURSIVE unaligned_read_bytes_checked(_, _, _, _, _, _)
unaligned_read_bytes_checked(m, address, w, i, value, oldval) ==
  IF i = w THEN [m EXCEPT !.val = value, !.ret = FALSE]
  ELSE LET m1 == mem_readb_checked(m, address + i) IN
       IF m1.ret THEN [m1 EXCEPT !.val = oldval]
       ELSE unaligned_read_bytes_checked(m1, address, w, i + 1, Append(value, m1.val[1]), oldval)

mem_unalignedread_checked(m, address, w) ==
  unaligned_read_bytes_checked(Log(m, Ev("unaligned", "r", address, w, "-")), address, w, 0, <<>>, m.val)

\* mem_unalignedwritew/d/q_checked: the first failing byte write ends the
\* access with true
RECURSIVE unaligned_write_bytes_checked(_, _, _, _, _)
unaligned_write_bytes_checked(m, address, w, i, val) ==
  IF i = w THEN [m EXCEPT !.ret = FALSE]
  ELSE LET m1 == mem_writeb_checked(m, address + i, <<ByteOf(val, i)>>) IN
       IF m1.ret THEN m1
       ELSE unaligned_write_bytes_checked(m1, address, w, i + 1, val)

mem_unalignedwrite_checked(m, address, w, val) ==
  unaligned_write_bytes_checked(Log(m, Ev("unaligned", "w", address, w, "-")), address, w, 0, val)

mem_readw_inline(m, address) ==
  IF PageOffset(address) < 4095 THEN
    LET tlb_addr == get_tlb_read(address) IN
    IF tlb_addr # NullPt THEN host_read(m, tlb_addr, address, 2)
    ELSE PageHandler_read(m, get_tlb_readhandler(address), address, 2)
  ELSE mem_unalignedread(m, address, 2)

mem_readd_inline(m, address) ==
  IF PageOffset(address) < 4093 THEN
    LET tlb_addr == get_tlb_read(address) IN
    IF tlb_addr # NullPt THEN host_read(m, tlb_addr, address, 4)
    ELSE PageHandler_read(m, get_tlb_readhandler(address), address, 4)
  ELSE mem_unalignedread(m, address, 4)

mem_readq_inline(m, address) ==
  IF PageOffset(address) < 4089 THEN
    LET tlb_addr == get_tlb_read(address) IN
    IF tlb_addr # NullPt THEN host_read(m, tlb_addr, address, 8)
    ELSE PageHandler_read(m, get_tlb_readhandler(address), address, 8)
  ELSE mem_unalignedread(m, address, 8)

\* mem_writew_inline looking up the read pointer of the page
mem_writew_inline_readptr(m, address, val) ==
  IF PageOffset(address) < 4095 THEN
    LET tlb_addr == get_tlb_read(address) IN
    IF tlb_addr # NullPt THEN host_write(m, tlb_addr, address, 2, val)
    ELSE PageHandler_write(m, get_tlb_writehandler(address), address, 2, val)
  ELSE mem_unalignedwrite(m, address, 2, val)

\* mem_writew_inline without the fallback at page offset 0xfff
mem_writew_inline_nofallback(m, address, val) ==
  LET tlb_addr == get_tlb_write(address) IN
  IF tlb_addr # NullPt THEN host_write(m, tlb_addr, address, 2, val)
  ELSE PageHandler_write(m, get_tlb_writehandler(address), address, 2, val)

mem_writew_inline(m, address, val) ==
  IF PageOffset(address) < 4095 THEN
    LET tlb_addr == get_tlb_write(address) IN
    IF tlb_addr # NullPt THEN host_write(m, tlb_addr, address, 2, val)
    ELSE PageHandler_write(m, get_tlb_writehandler(address), address, 2, val)
  ELSE mem_unalignedwrite(m, address, 2, val)

\* mem_writed_inline without the test of the pointer
mem_writed_inline_nocheck(m, address, val) ==
  IF PageOffset(address) < 4093 THEN
    host_write(m, get_tlb_write(address), address, 4, val)
  ELSE mem_unalignedwrite(m, address, 4, val)

mem_writed_inline(m, address, val) ==
  IF PageOffset(address) < 4093 THEN
    LET tlb_addr == get_tlb_write(address) IN
    IF tlb_addr # NullPt THEN host_write(m, tlb_addr, address, 4, val)
    ELSE PageHandler_write(m, get_tlb_writehandler(address), address, 4, val)
  ELSE mem_unalignedwrite(m, address, 4, val)

mem_writeq_inline(m, address, val) ==
  IF PageOffset(address) < 4089 THEN
    LET tlb_addr == get_tlb_write(address) IN
    IF tlb_addr # NullPt THEN host_write(m, tlb_addr, address, 8, val)
    ELSE PageHandler_write(m, get_tlb_writehandler(address), address, 8, val)
  ELSE mem_unalignedwrite(m, address, 8, val)

mem_readw_checked(m, address) ==
  IF PageOffset(address) < 4095 THEN
    LET tlb_addr == get_tlb_read(address) IN
    IF tlb_addr # NullPt THEN [host_read(m, tlb_addr, address, 2) EXCEPT !.ret = FALSE]
    ELSE PageHandler_read_checked(m, get_tlb_readhandler(address), address, 2)
  ELSE mem_unalignedread_checked(m, address, 2)

mem_readd_checked(m, address) ==
  IF PageOffset(address) < 4093 THEN
    LET tlb_addr == get_tlb_read(address) IN
    IF tlb_addr # NullPt THEN [host_read(m, tlb_addr, address, 4) EXCEPT !.ret = FALSE]
    ELSE PageHandler_read_checked(m, get_tlb_readhandler(address), address, 4)
  ELSE mem_unalignedread_checked(m, address, 4)

\* mem_readq_checked with the limit one byte too far
mem_readq_checked_offbyone(m, address) ==
  IF PageOffset(address) < 4090 THEN
    LET tlb_addr == get_tlb_read(address) IN
    IF tlb_addr # NullPt THEN [host_read(m, tlb_addr, address, 8) EXCEPT !.ret = FALSE]
    ELSE PageHandler_read_checked(m, get_tlb_readhandler(address), address, 8)
  ELSE mem_unalignedread_checked(m, address, 8)

mem_readq_checked(m, address) ==
  IF PageOffset(address) < 4089 THEN
    LET tlb_addr == get_tlb_read(address) IN
    IF tlb_addr # NullPt THEN [host_read(m, tlb_addr, address, 8) EXCEPT !.ret = FALSE]
    ELSE PageHandler_read_checked(m, get_tlb_readhandler(address), address, 8)
  ELSE mem_unalignedread_checked(m, address, 8)

mem_writew_checked(m, address, val) ==
  IF PageOffset(address) < 4095 THEN
    LET tlb_addr == get_tlb_write(address) IN
    IF tlb_addr # NullPt THEN [host_write(m, tlb_addr, address, 2, val) EXCEPT !.ret = FALSE]
    ELSE PageHandler_write_checked(m, get_tlb_writehandler(address), address, 2, val)
  ELSE mem_unalignedwrite_checked(m, address, 2, val)

mem_writed_checked(m, address, val) ==
  IF PageOffset(address) < 4093 THEN
    LET tlb_addr == get_tlb_write(address) IN
    IF tlb_addr # NullPt THEN [host_write(m, tlb_addr, address, 4, val) EXCEPT !.ret = FALSE]
    ELSE PageHandler_write_checked(m, get_tlb_writehandler(address), address, 4, val)
  ELSE mem_unalignedwrite_checked(m, address, 4, val)

mem_writeq_checked(m, address, val) ==
  IF PageOffset(address) < 4089 THEN
    LET tlb_addr == get_tlb_write(address) IN
    IF tlb_addr # NullPt THEN [host_write(m, tlb_addr, address, 8, val) EXCEPT !.ret = FALSE]
    ELSE PageHandler_write_checked(m, get_tlb_writehandler(address), address, 8, val)
  ELSE mem_unalignedwrite_checked(m, address, 8, val)

\* The accessor of a family and width, as its callers pick it.
MemRead(m, address, w) ==
  CASE w = 1 -> mem_readb_inline(m, address)
    [] w = 2 -> mem_readw_inline(m, address)
    [] w = 4 -> mem_readd_inline(m, address)
    [] w = 8 -> mem_readq_inline(m, address)

MemWrite(m, address, w, val) ==
  CASE w = 1 -> mem_writeb_inline(m, address, val)
    [] w = 2 -> mem_writew_inline(m, address, val)
    [] w = 4 -> mem_writed_inline(m, address, val)
    [] w = 8 -> mem_writeq_inline(m, address, val)

MemReadChecked(m, address, w) ==
  CASE w = 1 -> mem_readb_checked(m, address)
    [] w = 2 -> mem_readw_checked(m, address)
    [] w = 4 -> mem_readd_checked(m, address)
    [] w = 8 -> mem_readq_checked(m, address)

MemWriteChecked(m, address, w, val) ==
  CASE w = 1 -> mem_writeb_checked(m, address, val)
    [] w = 2 -> mem_writew_checked(m, address, val)
    [] w = 4 -> mem_writed_checked(m, address, val)
    [] w = 8 -> mem_writeq_checked(m, address, val)


(***************************************************************************)
(* Accesses as steps                                                       *)
(***************************************************************************)
NoAcc == [fn |-> "none"]
NoTwin == [mem |-> InitMem, val |-> <<>>, wrote |-> <<>>]
NoExec == [a |-> 0 - 1]
\* no page entry in use, the serial port and the IPX driver not installed
NoPte == [op |-> "none"]
NoSerial == [installed |-> FALSE]
NoIpx == [installed |-> FALSE]
DevicesOff == pte = NoPte /\ serial = NoSerial /\ ipx = NoIpx

\* The machine an access starts on; <<>> is the caller's *val before the call.
M0 == [mem |-> mem, cache |-> cache, ev |-> <<>>, val |-> <<>>, ret |-> FALSE, fault |-> FALSE]

HasCode(p) == pflags[p] \cap PFLAG_HASCODE # {}

AccRecord(fn, address, w, m1) ==
  [fn |-> fn, a |-> address, w |-> w, ev |-> m1.ev, val |-> m1.val, ret |-> m1.ret,
   fault |-> m1.fault, before |-> mem, cachebefore |-> cache, hascode |-> {p \in Pages : HasCode(p)},
   evicted |-> {b.start : b \in cache \ m1.cache},
   kept |-> {b.start : b \in m1.cache}]

Access(fn, address, w, m1) ==
  /\ mem' = m1.mem
  /\ cache' = m1.cache
  /\ acc' = AccRecord(fn, address, w, m1)
  /\ nops' = nops + 1
  /\ UNCHANGED <<tlb, pflags, exec, nonmemvars>>

Read ==
  /\ nops < MaxOps
  /\ \E address \in AccAddrs, w \in Widths :
       Access("read", address, w, MemRead(M0, address, w))

Write ==
  /\ nops < MaxOps
  /\ \E address \in AccAddrs, w \in Widths :
       Access("write", address, w, MemWrite(M0, address, w, PatternVal(w)))

ReadChecked ==
  /\ nops < MaxOps
  /\ \E address \in AccAddrs, w \in Widths :
       Access("read_checked", address, w, MemReadChecked(M0, address, w))

WriteChecked ==
  /\ nops < MaxOps
  /\ \E address \in AccAddrs, w \in Widths :
       Access("write_checked", address, w, MemWriteChecked(M0, address, w, PatternVal(w)))

(***************************************************************************)
(* The recompiler's block cache                                            *)
(***************************************************************************)
\* Where blocks start, and the guest bytes a block starting there covers: a
\* block ends at the page boundary or after two bytes.
CodeStarts == {4094, 4095, 4096}
BlockLen(start) == IF PageOf(start + 1) = PageOf(start) THEN 2 ELSE 1
CodeBytes(memory, start) == [i \in 1 .. BlockLen(start) |-> memory[start + i - 1]]

NewBlock(start) ==
  [start |-> start, page |-> PageOf(start), bytes |-> CodeBytes(mem, start)]

\* Caching a block: the page it covers is flagged has_code (16- or 32-bit)
\* and its writes are routed to the code page handler.
CacheBlock(start, big) ==
  LET p == PageOf(start) IN
  /\ cache' = cache \cup {NewBlock(start)}
  /\ pflags' = [pflags EXCEPT ![p] = {IF big THEN PFLAG_HASCODE32 ELSE PFLAG_HASCODE16}]
  /\ tlb' = [read         |-> [tlb.read EXCEPT ![p] = TlbEntry("code").read],
             write        |-> [tlb.write EXCEPT ![p] = TlbEntry("code").write],
             readhandler  |-> [tlb.readhandler EXCEPT ![p] = TlbEntry("code").readhandler],
             writehandler |-> [tlb.writehandler EXCEPT ![p] = TlbEntry("code").writehandler]]

CanHoldCode(p, big) ==
  /\ tlb.readhandler[p] = "ram"
  /\ pflags[p] \subseteq {IF big THEN PFLAG_HASCODE32 ELSE PFLAG_HASCODE16}

\* The code size of the segment a block is translated in (cpu.code.big):
\* the code of page 0 is 16-bit code, the code of page 1 is 32-bit code.
CodeBig(start) == PageOf(start) = 1

Translate ==
  \E start \in CodeStarts :
    /\ CanHoldCode(PageOf(start), CodeBig(start))
    /\ \A b \in cache : b.start # start
    /\ CacheBlock(start, CodeBig(start))
    /\ UNCHANGED <<mem, acc, exec, nops, nonmemvars>>

\* Execution at an address: the cached block that starts there, or a block
\* translated from the bytes now in memory.
Execute ==
  \E start \in CodeStarts :
    \/ /\ \E b \in cache : b.start = start
       /\ exec' = [a |-> start, cached |-> TRUE,
                   ran |-> (CHOOSE b \in cache : b.start = start).bytes,
                   actual |-> CodeBytes(mem, start)]
       /\ UNCHANGED <<tlb, pflags, mem, cache, acc, nops, nonmemvars>>
    \/ /\ \A b \in cache : b.start # start
       /\ CanHoldCode(PageOf(start), CodeBig(start))
       /\ CacheBlock(start, CodeBig(start))
       /\ exec' = [a |-> start, cached |-> FALSE,
                   ran |-> NewBlock(start).bytes,
                   actual |-> CodeBytes(mem, start)]
       /\ UNCHANGED <<mem, acc, nops, nonmemvars>>

\* MEM_SetPageHandler / MEM_ResetPageHandler with the relink of the page:
\* rebinding a page's handler drops the blocks translated from it.
MEM_SetPageHandler ==
  \E p \in Pages, kind \in {"direct", "handler"} :
    /\ cache' = {b \in cache : b.page # p}
    /\ pflags' = [pflags EXCEPT ![p] = {}]
    /\ tlb' = [read         |-> [tlb.read EXCEPT ![p] = TlbEntry(kind).read],
               write        |-> [tlb.write EXCEPT ![p] = TlbEntry(kind).write],
               readhandler  |-> [tlb.readhandler EXCEPT ![p] = TlbEntry(kind).readhandler],
               writehandler |-> [tlb.writehandler EXCEPT ![p] = TlbEntry(kind).writehandler]]
    /\ UNCHANGED <<mem, acc, exec, nops, nonmemvars>>

WriteAddrs == {4095, 4096}

GuestWrite ==
  /\ nops < MaxWrites
  /\ \E address \in WriteAddrs, w \in Widths :
       Access("write", address, w, MemWrite(M0, address, w, PatternVal(w)))

(***************************************************************************)
(* The normal core: CPU state and the helpers the 0F table calls           *)
(***************************************************************************)
\* CPU_ArchitectureType thresholds the table compares against; a 386 is 3.
Intel486OldSlow == 4
Pentium == 5

\* A 32-bit value is its low and high word.
Dword(lo, hi) == [lo |-> lo, hi |-> hi]
WordOf(val) == val[1] + 256 * val[2]
WordBytes(v) == <<v % 256, v \div 256>>
DwordBytes(d) == WordBytes(d.lo) \o WordBytes(d.hi)

\* Is this machine code running, and how has it ended.
Running(s) == s.out = "run"
goto_illegal_opcode(s) == [s EXCEPT !.out = "illegal_opcode"]
EXCEPTION_GP(s) == [s EXCEPT !.out = "GP"]
\* RUNEXCEPTION(): the exception the helper prepared, a protection fault
RUNEXCEPTION(s) == [s EXCEPT !.out = "GP"]
E_Exit(s) == [s EXCEPT !.out = "E_Exit"]

\* LoadMb/LoadMw/LoadMd and SaveMb/SaveMw/SaveMd: mem_readX and mem_writeX; a
\* fault of the page handler ends the instruction.
AfterMem(s, m1) == [s EXCEPT !.m = m1, !.out = IF m1.fault THEN "page_fault" ELSE s.out]
LoadMb(s, address) == AfterMem(s, mem_readb_inline(s.m, address))
LoadMw(s, address) == AfterMem(s, mem_readw_inline(s.m, address))
LoadMd(s, address) == AfterMem(s, mem_readd_inline(s.m, address))
SaveMb(s, address, v) == AfterMem(s, mem_writeb_inline(s.m, address, <<v>>))
SaveMw(s, address, v) == AfterMem(s, mem_writew_inline(s.m, address, WordBytes(v)))
SaveMd(s, address, d) == AfterMem(s, mem_writed_inline(s.m, address, DwordBytes(d)))

\* GetRMrw / GetEArw / GetRMrb / GetEArb / GetEArd: the register a field of
\* the ModRM byte names.
RegField(rm) == (rm \div 8) % 8
RmField(rm) == rm % 8
GetW(c, r) == c.regw[r]
SetW(c, r, v) == [c EXCEPT !.regw[r] = v]
GetB(c, r) == IF r < 4 THEN c.regw[r] % 256 ELSE c.regw[r - 4] \div 256
SetB(c, r, v) ==
  IF r < 4 THEN [c EXCEPT !.regw[r] = (@ \div 256) * 256 + v]
  ELSE [c EXCEPT !.regw[r - 4] = v * 256 + (@ % 256)]
SetD(c, r, d) == [c EXCEPT !.regw[r] = d.lo, !.regh[r] = d.hi]
SetCpu(s, c) == [s EXCEPT !.c = c]

\* The flags the guest sees: reg_flags, or what the deferred computation of
\* the last arithmetic instruction gives.
get_CF(c) == IF c.lf = "t_UNKNOWN" THEN c.CF ELSE c.lfCF
get_ZF(c) == IF c.lf = "t_UNKNOWN" THEN c.ZF ELSE c.lfZF
\* FillFlags(): the deferred flags are computed and stored in reg_flags.
FillFlags(c) == [c EXCEPT !.CF = get_CF(c), !.ZF = get_ZF(c), !.lf = "t_UNKNOWN"]
SETFLAGBIT_CF(c, b) == [c EXCEPT !.CF = b]
SETFLAGBIT_ZF(c, b) == [c EXCEPT !.ZF = b]

\* A selector names a descriptor the tables hold when its low bit is clear.
SelValid(sel) == sel % 2 = 0

CPU_SLDT(c) == c.ldtr
CPU_STR(c) == c.tr
\* CPU_LLDT / CPU_LTR: true when an exception was prepared
CPU_LLDT_fails(c, sel) == ~SelValid(sel)
CPU_LLDT(c, sel) == [c EXCEPT !.ldtr = sel]
CPU_LTR_fails(c, sel) == ~SelValid(sel)
CPU_LTR(c, sel) == [c EXCEPT !.tr = sel]
CPU_VERR(c, sel) == SETFLAGBIT_ZF(FillFlags(c), SelValid(sel))
CPU_VERW(c, sel) == SETFLAGBIT_ZF(FillFlags(c), SelValid(sel))
CPU_LGDT(c, limit, base) == [c EXCEPT !.gdt = [limit |-> limit, base |-> base]]
CPU_LIDT(c, limit, base) == [c EXCEPT !.idt = [limit |-> limit, base |-> base]]
CPU_SMSW(c) == c.cr[0].lo
CPU_LMSW_fails(c, word) == c.pmode /\ c.cpl > 0
CPU_LMSW(c, word) == [c EXCEPT !.cr[0].lo = (@ \div 16) * 16 + ((word % 16) - (word % 2)) + IF @ % 2 = 1 THEN 1 ELSE word % 2]
\* CPU_LAR / CPU_LSL: ZF and, for a valid selector, the access rights or limit
CPU_LAR(c, sel, ar) == SETFLAGBIT_ZF(FillFlags(c), SelValid(sel))
CPU_LAR_result(sel, ar) == IF SelValid(sel) THEN (sel \div 256) * 256 ELSE ar
CPU_LSL(c, sel, limit) == SETFLAGBIT_ZF(FillFlags(c), SelValid(sel))
CPU_LSL_result(sel, limit) == IF SelValid(sel) THEN sel % 256 ELSE limit
\* CPU_SetSegGeneral: true when an exception was prepared
CPU_SetSegGeneral_fails(c, sel) == c.pmode /\ ~c.VM /\ ~SelValid(sel)
CPU_SetSegGeneral(c, seg, sel) == [c EXCEPT !.seg[seg] = sel]
\* CPU_READ_CRX: a protection fault at a non-zero privilege level
CPU_READ_CRX_fails(c, which) == c.pmode /\ c.cpl > 0
CPU_READ_CRX(c, which) == c.cr[which]
PAGING_ClearTLB(c) == [c EXCEPT !.tlbcleared = TRUE]
CPU_ReadTSC(c) == SetD(SetD(c, 0, c.tsc), 2, Dword(0, 0))
BSWAPW(c, r) == SetW(c, r, 0)

(***************************************************************************)
(* The normal core: the handlers of prefix_0f.h, 16-bit operand size       *)
(***************************************************************************)
\* An instruction in flight: the CPU, the memory machine and how it stands.
InsState(c, m) == [c |-> c, m |-> m, out |-> "run"]

\* The word operand of a ModRM byte: the register, or memory at the address.
LoadEw(s, rm, eaa) ==
  IF rm >= 192 THEN [s EXCEPT !.m.val = WordBytes(GetW(s.c, RmField(rm)))]
  ELSE LoadMw(s, eaa)

\* GRP 6 Exxx
CASE_0F_W_00(s, rm, eaa) ==
  IF s.c.VM \/ ~s.c.pmode THEN goto_illegal_opcode(s)
  ELSE LET which == RegField(rm) IN
    IF which \in {0, 1} THEN
      LET saveval == IF which = 0 THEN CPU_SLDT(s.c) ELSE CPU_STR(s.c) IN
      IF rm >= 192 THEN SetCpu(s, SetW(s.c, RmField(rm), saveval))
      ELSE SaveMw(s, eaa, saveval)
    ELSE IF which \in {2, 3, 4, 5} THEN
      LET s1 == LoadEw(s, rm, eaa) IN
      IF ~Running(s1) THEN s1
      ELSE LET loadval == WordOf(s1.m.val) IN
        CASE which = 2 ->
               IF s1.c.cpl # 0 THEN EXCEPTION_GP(s1)
               ELSE IF CPU_LLDT_fails(s1.c, loadval) THEN RUNEXCEPTION(s1)
               ELSE SetCpu(s1, CPU_LLDT(s1.c, loadval))
          [] which = 3 ->
               IF s1.c.cpl # 0 THEN EXCEPTION_GP(s1)
               ELSE IF CPU_LTR_fails(s1.c, loadval) THEN RUNEXCEPTION(s1)
               ELSE SetCpu(s1, CPU_LTR(s1.c, loadval))
          [] which = 4 -> SetCpu(s1, CPU_VERR(s1.c, loadval))
          [] which = 5 -> SetCpu(s1, CPU_VERW(s1.c, loadval))
    ELSE goto_illegal_opcode(s)

\* Group 7 Ew
CASE_0F_W_01(s, rm, eaa) ==
  LET which == RegField(rm) IN
  IF rm < 192 THEN
    CASE which = 0 ->                                          \* SGDT
           LET s1 == SaveMw(s, eaa, s.c.gdt.limit) IN
           IF ~Running(s1) THEN s1 ELSE SaveMd(s1, eaa + 2, s1.c.gdt.base)
      [] which = 1 ->                                          \* SIDT
           LET s1 == SaveMw(s, eaa, s.c.idt.limit) IN
           IF ~Running(s1) THEN s1 ELSE SaveMd(s1, eaa + 2, s1.c.idt.base)
      [] which \in {2, 3} ->                                   \* LGDT, LIDT
           IF s.c.pmode /\ s.c.cpl # 0 THEN EXCEPTION_GP(s)
           ELSE LET s1 == LoadMd(s, eaa + 2) IN
             IF ~Running(s1) THEN s1
             ELSE LET v1 == Dword(WordOf(s1.m.val), s1.m.val[3])
                      s2 == LoadMw(s1, eaa) IN
               IF ~Running(s2) THEN s2
               ELSE LET v0 == WordOf(s2.m.val) IN
                 SetCpu(s2, IF which = 2 THEN CPU_LGDT(s2.c, v0, v1)
                                         ELSE CPU_LIDT(s2.c, v0, v1))
      [] which = 4 -> SaveMw(s, eaa, CPU_SMSW(s.c))            \* SMSW
      [] which = 6 ->                                          \* LMSW
           LET s1 == LoadMw(s, eaa) IN
           IF ~Running(s1) THEN s1
           ELSE LET limit == WordOf(s1.m.val) IN
             IF CPU_LMSW_fails(s1.c, limit) THEN RUNEXCEPTION(s1)
             ELSE SetCpu(s1, CPU_LMSW(s1.c, limit))
      [] which = 7 ->                                          \* INVLPG
           IF s.c.pmode /\ s.c.cpl # 0 THEN EXCEPTION_GP(s)
           ELSE SetCpu(s, PAGING_ClearTLB(s.c))
      [] OTHER -> s
  ELSE
    CASE which \in {2, 3} ->
           IF s.c.pmode /\ s.c.cpl # 0 THEN EXCEPTION_GP(s)
           ELSE goto_illegal_opcode(s)
      [] which = 4 -> SetCpu(s, SetW(s.c, RmField(rm), CPU_SMSW(s.c)))
      [] which = 6 ->
           IF CPU_LMSW_fails(s.c, GetW(s.c, RmField(rm))) THEN RUNEXCEPTION(s)
           ELSE SetCpu(s, CPU_LMSW(s.c, GetW(s.c, RmField(rm))))
      [] OTHER -> goto_illegal_opcode(s)

\* LAR Gw,Ew
CASE_0F_W_02(s, rm, eaa) ==
  IF s.c.VM \/ ~s.c.pmode THEN goto_illegal_opcode(s)
  ELSE LET ar == GetW(s.c, RegField(rm))
           s1 == LoadEw(s, rm, eaa) IN
    IF ~Running(s1) THEN s1
    ELSE LET sel == WordOf(s1.m.val) IN
      SetCpu(s1, SetW(CPU_LAR(s1.c, sel, ar), RegField(rm), CPU_LAR_result(sel, ar)))

\* LSL Gw,Ew
CASE_0F_W_03(s, rm, eaa) ==
  IF s.c.VM \/ ~s.c.pmode THEN goto_illegal_opcode(s)
  ELSE LET limit == GetW(s.c, RegField(rm))
           s1 == LoadEw(s, rm, eaa) IN
    IF ~Running(s1) THEN s1
    ELSE LET sel == WordOf(s1.m.val) IN
      SetCpu(s1, SetW(CPU_LSL(s1.c, sel, limit), RegField(rm), CPU_LSL_result(sel, limit)))

\* CLTS
CASE_0F_B_06(s) ==
  IF s.c.pmode /\ s.c.cpl # 0 THEN EXCEPTION_GP(s)
  ELSE SetCpu(s, [s.c EXCEPT !.cr0ts = FALSE])

\* INVD, WBINVD
CASE_0F_B_08(s) ==
  IF s.c.arch < Intel486OldSlow THEN goto_illegal_opcode(s)
  ELSE IF s.c.pmode /\ s.c.cpl # 0 THEN EXCEPTION_GP(s)
  ELSE s

\* MOV Rd,CRx with the two register fields of the ModRM byte exchanged
CASE_0F_B_20_swapped(s, rm0) ==
  LET which == RmField(rm0)
      rm == IF rm0 < 192 THEN 192 + (rm0 % 64) ELSE rm0 IN
  IF CPU_READ_CRX_fails(s.c, which) THEN RUNEXCEPTION(s)
  ELSE SetCpu(s, SetD(s.c, RegField(rm), CPU_READ_CRX(s.c, which)))

\* MOV Rd,CRx
CASE_0F_B_20(s, rm0) ==
  LET which == RegField(rm0)
      rm == IF rm0 < 192 THEN 192 + (rm0 % 64) ELSE rm0 IN
  IF CPU_READ_CRX_fails(s.c, which) THEN RUNEXCEPTION(s)
  ELSE SetCpu(s, SetD(s.c, RmField(rm), CPU_READ_CRX(s.c, which)))

\* RDTSC
CASE_0F_B_31(s) ==
  IF s.c.arch < Pentium THEN goto_illegal_opcode(s)
  ELSE SetCpu(s, CPU_ReadTSC(s.c))

\* cmpxchg Eb,Gb
CASE_0F_B_b0(s, rm, eaa) ==
  IF s.c.arch < Intel486OldSlow THEN goto_illegal_opcode(s)
  ELSE LET c == FillFlags(s.c)
           rmrb == GetB(c, RegField(rm)) IN
    IF rm >= 192 THEN
      IF GetB(c, 0) = GetB(c, RmField(rm))
      THEN SetCpu(s, SETFLAGBIT_ZF(SetB(c, RmField(rm), rmrb), TRUE))
      ELSE SetCpu(s, SETFLAGBIT_ZF(SetB(c, 0, GetB(c, RmField(rm))), FALSE))
    ELSE LET s1 == LoadMb(SetCpu(s, c), eaa) IN
      IF ~Running(s1) THEN s1
      ELSE LET val == s1.m.val[1] IN
        IF GetB(c, 0) = val THEN
          LET s2 == SaveMb(s1, eaa, rmrb) IN
          IF ~Running(s2) THEN s2 ELSE SetCpu(s2, SETFLAGBIT_ZF(s2.c, TRUE))
        ELSE
          LET s2 == SaveMb(s1, eaa, val) IN
          IF ~Running(s2) THEN s2
          ELSE SetCpu(s2, SETFLAGBIT_ZF(SetB(s2.c, 0, val), FALSE))

\* cmpxchg Ew,Gw
CASE_0F_W_b1_nowrite(s, rm, eaa) ==
  IF s.c.arch < Intel486OldSlow THEN goto_illegal_opcode(s)
  ELSE LET c == FillFlags(s.c)
           rmrw == GetW(c, RegField(rm)) IN
    IF rm >= 192 THEN
      IF GetW(c, 0) = GetW(c, RmField(rm))
      THEN SetCpu(s, SETFLAGBIT_ZF(SetW(c, RmField(rm), rmrw), TRUE))
      ELSE SetCpu(s, SETFLAGBIT_ZF(SetW(c, 0, GetW(c, RmField(rm))), FALSE))
    ELSE LET s1 == LoadMw(SetCpu(s, c), eaa) IN
      IF ~Running(s1) THEN s1
      ELSE LET val == WordOf(s1.m.val) IN
        IF GetW(c, 0) = val THEN
          LET s2 == SaveMw(s1, eaa, rmrw) IN
          IF ~Running(s2) THEN s2 ELSE SetCpu(s2, SETFLAGBIT_ZF(s2.c, TRUE))
        ELSE SetCpu(s1, SETFLAGBIT_ZF(SetW(s1.c, 0, val), FALSE))

CASE_0F_W_b1(s, rm, eaa) ==
  IF s.c.arch < Intel486OldSlow THEN goto_illegal_opcode(s)
  ELSE LET c == FillFlags(s.c)
           rmrw == GetW(c, RegField(rm)) IN
    IF rm >= 192 THEN
      IF GetW(c, 0) = GetW(c, RmField(rm))
      THEN SetCpu(s, SETFLAGBIT_ZF(SetW(c, RmField(rm), rmrw), TRUE))
      ELSE SetCpu(s, SETFLAGBIT_ZF(SetW(c, 0, GetW(c, RmField(rm))), FALSE))
    ELSE LET s1 == LoadMw(SetCpu(s, c), eaa) IN
      IF ~Running(s1) THEN s1
      ELSE LET val == WordOf(s1.m.val) IN
        IF GetW(c, 0) = val THEN
          LET s2 == SaveMw(s1, eaa, rmrw) IN
          IF ~Running(s2) THEN s2 ELSE SetCpu(s2, SETFLAGBIT_ZF(s2.c, TRUE))
        ELSE
          LET s2 == SaveMw(s1, eaa, val) IN
          IF ~Running(s2) THEN s2
          ELSE SetCpu(s2, SETFLAGBIT_ZF(SetW(s2.c, 0, val), FALSE))

\* LSS Ew, LFS Ew, LGS Ew: the selector word is loaded and the segment
\* register set before the offset word is loaded.
LoadSegWord(s, seg, rm, eaa) ==
  IF rm >= 192 THEN goto_illegal_opcode(s)
  ELSE LET s1 == LoadMw(s, eaa + 2) IN
    IF ~Running(s1) THEN s1
    ELSE LET sel == WordOf(s1.m.val) IN
      IF CPU_SetSegGeneral_fails(s1.c, sel) THEN RUNEXCEPTION(s1)
      ELSE LET s2 == LoadMw(SetCpu(s1, CPU_SetSegGeneral(s1.c, seg, sel)), eaa) IN
        IF ~Running(s2) THEN s2
        ELSE SetCpu(s2, SetW(s2.c, RegField(rm), WordOf(s2.m.val)))

CASE_0F_W_b2(s, rm, eaa) == LoadSegWord(s, "ss", rm, eaa)
CASE_0F_W_b4(s, rm, eaa) == LoadSegWord(s, "fs", rm, eaa)
CASE_0F_W_b5(s, rm, eaa) == LoadSegWord(s, "gs", rm, eaa)

\* Bits of a 16-bit word
Pow2(k) == 2 ^ k
TestBit(v, k) == (v \div Pow2(k)) % 2 = 1
SetBit(v, k) == IF TestBit(v, k) THEN v ELSE v + Pow2(k)
ClearBit(v, k) == IF TestBit(v, k) THEN v - Pow2(k) ELSE v
ToggleBit(v, k) == IF TestBit(v, k) THEN v - Pow2(k) ELSE v + Pow2(k)

\* GRP8 Ew,Ib
CASE_0F_W_ba(s, rm, eaa, imm) ==
  LET c == FillFlags(s.c)
      k == imm % 16
      sub == RegField(rm) IN
  IF rm >= 192 THEN
    LET earw == GetW(c, RmField(rm))
        c1 == SETFLAGBIT_CF(c, TestBit(earw, k)) IN
    CASE sub = 4 -> SetCpu(s, c1)
      [] sub = 5 -> SetCpu(s, SetW(c1, RmField(rm), SetBit(earw, k)))
      [] sub = 6 -> SetCpu(s, SetW(c1, RmField(rm), ClearBit(earw, k)))
      [] sub = 7 -> SetCpu(s, SetW(c1, RmField(rm), ToggleBit(earw, k)))
      [] OTHER -> E_Exit(SetCpu(s, c1))
  ELSE LET s1 == LoadMw(SetCpu(s, c), eaa) IN
    IF ~Running(s1) THEN s1
    ELSE LET old == WordOf(s1.m.val)
             s2 == SetCpu(s1, SETFLAGBIT_CF(s1.c, TestBit(old, k))) IN
      CASE sub = 4 -> s2
        [] sub = 5 -> SaveMw(s2, eaa, SetBit(old, k))
        [] sub = 6 -> SaveMw(s2, eaa, ClearBit(old, k))
        [] sub = 7 -> SaveMw(s2, eaa, ToggleBit(old, k))
        [] OTHER -> E_Exit(s2)

\* The word a bit instruction with its index in a register addresses: the
\* index is signed and moves the operand address by whole words; the address
\* then wraps within the 64 KB segment.
SignedW(v) == IF v >= 32768 THEN v - 65536 ELSE v
FixEA16(eaa) == eaa % 65536
BitEA(eaa, rmrw) == FixEA16(eaa + (SignedW(rmrw) \div 16) * 2)

\* What BT, BTS, BTR and BTC leave in the operand
BitResult(kind, old, k) ==
  CASE kind = "BTS" -> SetBit(old, k)
    [] kind = "BTR" -> ClearBit(old, k)
    [] kind = "BTC" -> ToggleBit(old, k)
    [] OTHER -> old

\* BT leaves memory alone; BTS, BTR and BTC write the word back.
BitStore_unchanged(s2, address, kind, old, k) ==
  IF kind = "BT" THEN s2 ELSE SaveMw(s2, address, old)

BitStore(s2, address, kind, old, k) ==
  IF kind = "BT" THEN s2 ELSE SaveMw(s2, address, BitResult(kind, old, k))

\* BT / BTS / BTR / BTC Ew,Gw
BitTestEw(s, rm, eaa, kind) ==
  LET c == FillFlags(s.c)
      rmrw == GetW(c, RegField(rm))
      k == rmrw % 16 IN
  IF rm >= 192 THEN
    LET earw == GetW(c, RmField(rm)) IN
    SetCpu(s, SetW(SETFLAGBIT_CF(c, TestBit(earw, k)), RmField(rm), BitResult(kind, earw, k)))
  ELSE LET s1 == LoadMw(SetCpu(s, c), BitEA(eaa, rmrw)) IN
    IF ~Running(s1) THEN s1
    ELSE BitStore(SetCpu(s1, SETFLAGBIT_CF(s1.c, TestBit(WordOf(s1.m.val), k))),
                  BitEA(eaa, rmrw), kind, WordOf(s1.m.val), k)

\* BT Ew,Gw
CASE_0F_W_a3(s, rm, eaa) == BitTestEw(s, rm, eaa, "BT")
\* BTS Ew,Gw
CASE_0F_W_ab(s, rm, eaa) == BitTestEw(s, rm, eaa, "BTS")
\* BTR Ew,Gw
CASE_0F_W_b3(s, rm, eaa) == BitTestEw(s, rm, eaa, "BTR")
\* BTC Ew,Gw
CASE_0F_W_bb(s, rm, eaa) == BitTestEw(s, rm, eaa, "BTC")

\* The byte operand of a ModRM byte: the byte register, or memory.
LoadEb(s, rm, eaa) ==
  IF rm >= 192 THEN [s EXCEPT !.m.val = <<GetB(s.c, RmField(rm))>>]
  ELSE LoadMb(s, eaa)

\* (int8_t) to 16 bits
SignExtendB(b) == IF b >= 128 THEN b + 65280 ELSE b

\* The loaded operand to the register of the reg field
MovedTo(s1, rm, v) == IF ~Running(s1) THEN s1 ELSE SetCpu(s1, SetW(s1.c, RegField(rm), v))

\* MOVZX Gw,Eb
CASE_0F_W_b6(s, rm, eaa) ==
  MovedTo(LoadEb(s, rm, eaa), rm, LoadEb(s, rm, eaa).m.val[1])

\* MOVZX Gw,Ew and MOVSX Gw,Ew
CASE_0F_W_b7(s, rm, eaa) ==
  MovedTo(LoadEw(s, rm, eaa), rm, WordOf(LoadEw(s, rm, eaa).m.val))

\* MOVSX Gw,Eb
CASE_0F_W_be(s, rm, eaa) ==
  MovedTo(LoadEb(s, rm, eaa), rm, SignExtendB(LoadEb(s, rm, eaa).m.val[1]))

\* The scan loops of BSF and BSR, with the number of times the body ran:
\*   while ((value & 0x01)==0) { result++; value>>=1; }
\*   while ((value & 0x8000)==0) { result--; value<<=1; }
RECURSIVE BSF_scan(_, _, _)
BSF_scan(value, result, steps) ==
  IF value % 2 # 0 THEN [result |-> result, steps |-> steps]
  ELSE BSF_scan(value \div 2, result + 1, steps + 1)

BSR_scan_lowest(value, result, steps) == BSF_scan(value, 0, 0)

RECURSIVE BSR_scan(_, _, _)
BSR_scan(value, result, steps) ==
  IF value >= 32768 THEN [result |-> result, steps |-> steps]
  ELSE BSR_scan((value * 2) % 65536, result - 1, steps + 1)

\* The scanned operand to ZF and the register of the reg field; the flags
\* are no longer deferred afterwards.
Scanned(s1, rm, value, result) ==
  IF ~Running(s1) THEN s1
  ELSE SetCpu(s1, [(IF value = 0 THEN SETFLAGBIT_ZF(s1.c, TRUE)
                    ELSE SetW(SETFLAGBIT_ZF(s1.c, FALSE), RegField(rm), result))
                   EXCEPT !.lf = "t_UNKNOWN"])

ScanOperand(s1) == IF Running(s1) THEN WordOf(s1.m.val) ELSE 0

\* BSF Gw,Ew
CASE_0F_W_bc(s, rm, eaa) ==
  Scanned(LoadEw(s, rm, eaa), rm, ScanOperand(LoadEw(s, rm, eaa)),
          IF ScanOperand(LoadEw(s, rm, eaa)) = 0 THEN 0
          ELSE BSF_scan(ScanOperand(LoadEw(s, rm, eaa)), 0, 0).result)

\* BSR Gw,Ew
CASE_0F_W_bd(s, rm, eaa) ==
  Scanned(LoadEw(s, rm, eaa), rm, ScanOperand(LoadEw(s, rm, eaa)),
          IF ScanOperand(LoadEw(s, rm, eaa)) = 0 THEN 0
          ELSE BSR_scan(ScanOperand(LoadEw(s, rm, eaa)), 15, 0).result)

\* XADD Gb,Eb
CASE_0F_B_c0(s, rm, eaa) ==
  IF s.c.arch < Intel486OldSlow THEN goto_illegal_opcode(s)
  ELSE LET oldrmrb == GetB(s.c, RegField(rm)) IN
    IF rm >= 192 THEN
      LET c1 == SetB(s.c, RegField(rm), GetB(s.c, RmField(rm))) IN
      SetCpu(s, SetB(c1, RmField(rm), (GetB(c1, RmField(rm)) + oldrmrb) % 256))
    ELSE LET s1 == LoadMb(s, eaa) IN
      IF ~Running(s1) THEN s1
      ELSE LET s2 == LoadMb(SetCpu(s1, SetB(s1.c, RegField(rm), s1.m.val[1])), eaa) IN
        IF ~Running(s2) THEN s2
        ELSE SaveMb(s2, eaa, (s2.m.val[1] + oldrmrb) % 256)

\* XADD Gw,Ew
CASE_0F_W_c1(s, rm, eaa) ==
  IF s.c.arch < Intel486OldSlow THEN goto_illegal_opcode(s)
  ELSE LET oldrmrw == GetW(s.c, RegField(rm)) IN
    IF rm >= 192 THEN
      LET c1 == SetW(s.c, RegField(rm), GetW(s.c, RmField(rm))) IN
      SetCpu(s, SetW(c1, RmField(rm), (GetW(c1, RmField(rm)) + oldrmrw) % 65536))
    ELSE LET s1 == LoadMw(s, eaa) IN
      IF ~Running(s1) THEN s1
      ELSE LET s2 == LoadMw(SetCpu(s1, SetW(s1.c, RegField(rm), WordOf(s1.m.val))), eaa) IN
        IF ~Running(s2) THEN s2
        ELSE SaveMw(s2, eaa, (WordOf(s2.m.val) + oldrmrw) % 65536)

\* BSWAP AX .. BSWAP DI (0F C8 + r)
CASE_0F_W_c8(s, r) ==
  IF s.c.arch < Intel486OldSlow THEN goto_illegal_opcode(s)
  ELSE SetCpu(s, BSWAPW(s.c, r))

(***************************************************************************)
(* The normal core: one instruction of the 0F table as a step              *)
(***************************************************************************)
NoIns == [op |-> 0 - 1]

\* Real mode, protected mode at privilege level 0 and 3, virtual-8086 mode
Modes ==
  {[pmode |-> FALSE, VM |-> FALSE, cpl |-> 0], [pmode |-> TRUE, VM |-> FALSE, cpl |-> 0],
   [pmode |-> TRUE, VM |-> FALSE, cpl |-> 3], [pmode |-> TRUE, VM |-> TRUE, cpl |-> 3]}

\* 386, 486, Pentium
Archs == {3, Intel486OldSlow, Pentium}

InitRegW == [r \in 0..7 |-> (44974 + r * 4369) % 65536]
InitRegH == [r \in 0..7 |-> 4096 + r]

\* A CPU in the mode, with every register holding a value of its own, the
\* flags of the last arithmetic instruction still deferred.
CpuOf(mode, arch) ==
  [regw |-> InitRegW, regh |-> InitRegH,
   seg |-> [x \in {"ss", "fs", "gs"} |-> 16],
   ldtr |-> 40, tr |-> 48,
   gdt |-> [limit |-> 255, base |-> Dword(4352, 1)],
   idt |-> [limit |-> 1023, base |-> Dword(8192, 2)],
   CF |-> FALSE, ZF |-> TRUE, lf |-> "t_CMPw", lfCF |-> TRUE, lfZF |-> FALSE,
   VM |-> mode.VM, pmode |-> mode.pmode, cpl |-> mode.cpl, arch |-> arch,
   cr0ts |-> TRUE,
   cr |-> [w \in 0..7 |-> Dword(16 * (w + 1) + (IF w = 0 /\ mode.pmode THEN 1 ELSE 0), 32768 + w)],
   tlbcleared |-> FALSE, tsc |-> Dword(4660, 22136)]

\* Register contents for the bit and scan instructions: bit indices below
\* 16, an index in the next word (20) and in the word before (65535),
\* operands with the lowest, the highest, every and no bit set, and SI equal
\* to the accumulator.
BitRegW == [r \in 0..7 |-> <<0, 1, 15, 8, 32768, 20, 0, 65535>>[r + 1]]
ScanVals == {2 ^ i : i \in 0..15} \cup {65535 - 2 ^ i : i \in 0..15}
RegFiles == {BitRegW} \cup {[InitRegW EXCEPT ![3] = v] : v \in ScanVals}
RealMode == [pmode |-> FALSE, VM |-> FALSE, cpl |-> 0]

\* The CPU with a register file and with deferred flags of its own; the
\* flag word holds the opposite, older values.
CpuWith(c, file, cf, zf) ==
  [c EXCEPT !.regw = file, !.lfCF = cf, !.lfZF = zf, !.CF = ~cf, !.ZF = ~zf]

\* The operands an instruction fetches after the two opcode bytes: a ModRM
\* byte (a register form, or [disp16] for a memory form), the displacement
\* and an immediate byte.
RegisterForms == 192..255
MemoryForms == {reg * 8 + 6 : reg \in 0..7}
ModRMs == RegisterForms \cup MemoryForms
EAs == {4094, 4096}
MaxImm == 1
Imms == {0, 15} \cup {16 + i : i \in 1..MaxImm}

\* The data pages of an instruction: plain RAM, a write-protected page, a
\* page that is not present.
CpuPageKinds == {"direct", "readonly", "fault"}

\* One run of a handler: the CPU and memory after it, the instruction and the
\* CPU and memory before it.
Step(op, rm, eaa, imm, s) ==
  /\ cpu' = s.c
  /\ mem' = s.m.mem
  /\ cache' = s.m.cache
  /\ ins' = [op |-> op, rm |-> rm, eaa |-> eaa, imm |-> imm,
             out |-> IF Running(s) THEN "ok" ELSE s.out,
             ev |-> s.m.ev, pre |-> cpu, premem |-> mem]
  /\ UNCHANGED <<tlb, pflags, acc, exec, nops, fpuvars, twin, devvars>>

S0 == InsState(cpu, M0)
\* the decoder is at an instruction boundary and nothing has run yet
Fetch == ins = NoIns
EAsOf(rm) == IF rm >= 192 THEN {0} ELSE EAs

I_0F_00 == Fetch /\ \E rm \in ModRMs : \E eaa \in EAsOf(rm) : Step(0, rm, eaa, 0, CASE_0F_W_00(S0, rm, eaa))
I_0F_01 == Fetch /\ \E rm \in ModRMs : \E eaa \in EAsOf(rm) : Step(1, rm, eaa, 0, CASE_0F_W_01(S0, rm, eaa))
I_0F_02 == Fetch /\ \E rm \in ModRMs : \E eaa \in EAsOf(rm) : Step(2, rm, eaa, 0, CASE_0F_W_02(S0, rm, eaa))
I_0F_03 == Fetch /\ \E rm \in ModRMs : \E eaa \in EAsOf(rm) : Step(3, rm, eaa, 0, CASE_0F_W_03(S0, rm, eaa))
I_0F_06 == Fetch /\ Step(6, 0, 0, 0, CASE_0F_B_06(S0))
I_0F_08 == Fetch /\ \E op \in {8, 9} : Step(op, 0, 0, 0, CASE_0F_B_08(S0))
I_0F_20 == Fetch /\ \E rm \in ModRMs : Step(32, rm, 0, 0, CASE_0F_B_20(S0, rm))
I_0F_31 == Fetch /\ Step(49, 0, 0, 0, CASE_0F_B_31(S0))
I_0F_b0 == Fetch /\ \E rm \in ModRMs : \E eaa \in EAsOf(rm) : Step(176, rm, eaa, 0, CASE_0F_B_b0(S0, rm, eaa))
I_0F_b1 == Fetch /\ \E rm \in ModRMs : \E eaa \in EAsOf(rm) : Step(177, rm, eaa, 0, CASE_0F_W_b1(S0, rm, eaa))
I_0F_b2 == Fetch /\ \E rm \in ModRMs : \E eaa \in EAsOf(rm) : Step(178, rm, eaa, 0, CASE_0F_W_b2(S0, rm, eaa))
I_0F_b4 == Fetch /\ \E rm \in ModRMs : \E eaa \in EAsOf(rm) : Step(180, rm, eaa, 0, CASE_0F_W_b4(S0, rm, eaa))
I_0F_b5 == Fetch /\ \E rm \in ModRMs : \E eaa \in EAsOf(rm) : Step(181, rm, eaa, 0, CASE_0F_W_b5(S0, rm, eaa))
I_0F_ba == Fetch /\ \E rm \in 0..255, imm \in Imms : \E eaa \in EAsOf(rm) :
    Step(186, rm, eaa, imm, CASE_0F_W_ba(S0, rm, eaa, imm))
\* The bit instructions with a register index run where the word they
\* address lies in the modelled window of memory.
InWindow(rm, eaa) ==
  rm >= 192 \/ {BitEA(eaa, GetW(cpu, RegField(rm))) + i : i \in 0..1} \subseteq Addrs
I_0F_a3 == Fetch /\ \E rm \in ModRMs : \E eaa \in EAsOf(rm) :
  InWindow(rm, eaa) /\ Step(163, rm, eaa, 0, CASE_0F_W_a3(S0, rm, eaa))
I_0F_ab == Fetch /\ \E rm \in ModRMs : \E eaa \in EAsOf(rm) :
  InWindow(rm, eaa) /\ Step(171, rm, eaa, 0, CASE_0F_W_ab(S0, rm, eaa))
I_0F_b3 == Fetch /\ \E rm \in ModRMs : \E eaa \in EAsOf(rm) :
  InWindow(rm, eaa) /\ Step(179, rm, eaa, 0, CASE_0F_W_b3(S0, rm, eaa))
I_0F_bb == Fetch /\ \E rm \in ModRMs : \E eaa \in EAsOf(rm) :
  InWindow(rm, eaa) /\ Step(187, rm, eaa, 0, CASE_0F_W_bb(S0, rm, eaa))
I_0F_b6 == Fetch /\ \E rm \in ModRMs : \E eaa \in EAsOf(rm) : Step(182, rm, eaa, 0, CASE_0F_W_b6(S0, rm, eaa))
I_0F_b7 == Fetch /\ \E op \in {183, 191}, rm \in ModRMs : \E eaa \in EAsOf(rm) :
  Step(op, rm, eaa, 0, CASE_0F_W_b7(S0, rm, eaa))
I_0F_be == Fetch /\ \E rm \in ModRMs : \E eaa \in EAsOf(rm) : Step(190, rm, eaa, 0, CASE_0F_W_be(S0, rm, eaa))
I_0F_bc == Fetch /\ \E rm \in ModRMs : \E eaa \in EAsOf(rm) : Step(188, rm, eaa, 0, CASE_0F_W_bc(S0, rm, eaa))
I_0F_bd == Fetch /\ \E rm \in ModRMs : \E eaa \in EAsOf(rm) : Step(189, rm, eaa, 0, CASE_0F_W_bd(S0, rm, eaa))
I_0F_c0 == Fetch /\ \E rm \in ModRMs : \E eaa \in EAsOf(rm) : Step(192, rm, eaa, 0, CASE_0F_B_c0(S0, rm, eaa))
I_0F_c1 == Fetch /\ \E rm \in ModRMs : \E eaa \in EAsOf(rm) : Step(193, rm, eaa, 0, CASE_0F_W_c1(S0, rm, eaa))
I_0F_c8 == Fetch /\ \E r \in 0..7 : Step(200 + r, 0, 0, 0, CASE_0F_W_c8(S0, r))

(***************************************************************************)
(* The recompiler's FPU translator (dyn_fpu.h): what it emits              *)
(***************************************************************************)
\* The code generator's calls, in the order the translator makes them.
gen_mov_word_to_reg(r, src) == [g |-> "mov_word_to_reg", r |-> r, n |-> 0, s |-> src, a |-> <<>>]
gen_add_imm(r, imm) == [g |-> "add_imm", r |-> r, n |-> imm, s |-> "", a |-> <<>>]
gen_and_imm(r, imm) == [g |-> "and_imm", r |-> r, n |-> imm, s |-> "", a |-> <<>>]
\* (a register left unprotected keeps nothing across a call)
gen_protect_reg_dropped(r) == [g |-> "and_imm", r |-> r, n |-> 7, s |-> "", a |-> <<>>]
gen_protect_reg(r) == [g |-> "protect_reg", r |-> r, n |-> 0, s |-> "", a |-> <<>>]
gen_restore_reg(r) == [g |-> "restore_reg", r |-> r, n |-> 0, s |-> "", a |-> <<>>]
gen_call_function_raw(fn) == [g |-> "call", r |-> "", n |-> 0, s |-> fn, a |-> <<>>]
gen_call_function_R(fn, r1) == [g |-> "call", r |-> "", n |-> 0, s |-> fn, a |-> <<r1>>]
gen_call_function_RR(fn, r1, r2) == [g |-> "call", r |-> "", n |-> 0, s |-> fn, a |-> <<r1, r2>>]
dyn_fill_ea(r, eaa) == [g |-> "fill_ea", r |-> r, n |-> eaa, s |-> "", a |-> <<>>]
MOV_REG_WORD16_FROM_HOST_REG(r, dst) == [g |-> "mov_reg_word16_from_host", r |-> r, n |-> 0, s |-> dst, a |-> <<>>]

\* What a translator leaves: the emitted code, whether it only logged an
\* "Unhandled ..." warning, whether it called E_Exit.
Emit(code) == [code |-> code, log |-> FALSE, abort |-> FALSE]
LOG_WARN == [code |-> <<>>, log |-> TRUE, abort |-> FALSE]
Nothing == [code |-> <<>>, log |-> FALSE, abort |-> FALSE]
E_Exit_translate == [code |-> <<>>, log |-> FALSE, abort |-> TRUE]

\* decode.modrm of dyn_get_modrm()
ModOf(modrm) == modrm \div 64
RegOf(modrm) == (modrm \div 8) % 8
RmOf(modrm) == modrm % 8

dyn_fpu_top_nomask(rm) ==
  << gen_mov_word_to_reg("FC_OP2", "TOP"), gen_add_imm("FC_OP2", rm),
     gen_mov_word_to_reg("FC_OP1", "TOP") >>

dyn_fpu_top(rm) ==
  << gen_mov_word_to_reg("FC_OP2", "TOP"), gen_add_imm("FC_OP2", rm),
     gen_and_imm("FC_OP2", 7), gen_mov_word_to_reg("FC_OP1", "TOP") >>

dyn_fpu_top_swapped(rm) ==
  << gen_mov_word_to_reg("FC_OP1", "TOP"), gen_add_imm("FC_OP1", rm),
     gen_and_imm("FC_OP1", 7), gen_mov_word_to_reg("FC_OP2", "TOP") >>

ArithNames == <<"FPU_FADD", "FPU_FMUL", "FPU_FCOM", "FPU_FCOM", "FPU_FSUB", "FPU_FSUBR", "FPU_FDIV", "FPU_FDIVR">>

ArithNamesEA == <<"FPU_FADD_EA", "FPU_FMUL_EA", "FPU_FCOM_EA", "FPU_FCOM_EA", "FPU_FSUB_EA", "FPU_FSUBR_EA", "FPU_FDIV_EA", "FPU_FDIVR_EA">>

dyn_eatree(reg) ==
  << gen_call_function_R(ArithNamesEA[reg + 1], "FC_OP1") >> \o
  (IF reg = 3 THEN << gen_call_function_raw("FPU_FPOP") >> ELSE <<>>)

\* escapes D8, DA, DC, DE with a memory operand: load to the temporary, then
\* the arithmetic of the reg field on ST(0)
dyn_ea_arith(loader, reg, eaa) ==
  << dyn_fill_ea("FC_ADDR", eaa), gen_call_function_R(loader, "FC_ADDR"),
     gen_mov_word_to_reg("FC_OP1", "TOP") >> \o dyn_eatree(reg)

dyn_fpu_esc0(modrm, eaa) ==
  IF ModOf(modrm) = 3 THEN
    Emit(dyn_fpu_top(RmOf(modrm)) \o
         << gen_call_function_RR(ArithNames[RegOf(modrm) + 1], "FC_OP1", "FC_OP2") >> \o
         (IF RegOf(modrm) = 3 THEN << gen_call_function_raw("FPU_FPOP") >> ELSE <<>>))
  ELSE Emit(dyn_ea_arith("FPU_FLD_F32_EA", RegOf(modrm), eaa))

Raw(fn) == Emit(<< gen_call_function_raw(fn) >>)

Esc1Group4 == <<"FPU_FCHS", "FPU_FABS", "", "", "FPU_FTST", "FPU_FXAM", "", "">>
Esc1Group5 == <<"FPU_FLD1", "FPU_FLDL2T", "FPU_FLDL2E", "FPU_FLDPI", "FPU_FLDLG2", "FPU_FLDLN2", "FPU_FLDZ", "">>
Esc1Group6 == <<"FPU_F2XM1", "FPU_FYL2X", "FPU_FPTAN", "FPU_FPATAN", "FPU_FXTRACT", "FPU_FPREM1", "FPU_FDECSTP", "FPU_FINCSTP">>
Esc1Group7 == <<"FPU_FPREM", "FPU_FYL2XP1", "FPU_FSQRT", "FPU_FSINCOS", "FPU_FRNDINT", "FPU_FSCALE", "FPU_FSIN", "FPU_FCOS">>

RawOrWarn(fn) == IF fn = "" THEN LOG_WARN ELSE Raw(fn)

\* a load that pushes: FPU_PREP_PUSH, then the loader with the address and TOP
dyn_push_load_nopush(loader, eaa) ==
  Emit(<< dyn_fill_ea("FC_OP1", eaa),
          gen_mov_word_to_reg("FC_OP2", "TOP"),
          gen_call_function_RR(loader, "FC_OP1", "FC_OP2") >>)

dyn_push_load(loader, eaa) ==
  Emit(<< gen_call_function_raw("FPU_PREP_PUSH"), dyn_fill_ea("FC_OP1", eaa),
          gen_mov_word_to_reg("FC_OP2", "TOP"),
          gen_call_function_RR(loader, "FC_OP1", "FC_OP2") >>)

\* a helper on the address, with or without the pop that follows
dyn_ea_call(fn, eaa, pop) ==
  Emit(<< dyn_fill_ea("FC_ADDR", eaa), gen_call_function_R(fn, "FC_ADDR") >> \o
       (IF pop THEN << gen_call_function_raw("FPU_FPOP") >> ELSE <<>>))

dyn_fpu_esc1(modrm, eaa) ==
  LET reg == RegOf(modrm)
      rm == RmOf(modrm) IN
  IF ModOf(modrm) = 3 THEN
    CASE reg = 0 ->                                            \* FLD STi
           Emit(<< gen_mov_word_to_reg("FC_OP1", "TOP"), gen_add_imm("FC_OP1", rm),
                   gen_and_imm("FC_OP1", 7), gen_protect_reg("FC_OP1"),
                   gen_call_function_raw("FPU_PREP_PUSH"),
                   gen_mov_word_to_reg("FC_OP2", "TOP"), gen_restore_reg("FC_OP1"),
                   gen_call_function_RR("FPU_FST", "FC_OP1", "FC_OP2") >>)
      [] reg = 1 ->                                            \* FXCH STi
           Emit(dyn_fpu_top(rm) \o << gen_call_function_RR("FPU_FXCH", "FC_OP1", "FC_OP2") >>)
      [] reg = 2 -> Raw("FPU_FNOP")
      [] reg = 3 ->                                            \* FSTP STi
           Emit(dyn_fpu_top(rm) \o << gen_call_function_RR("FPU_FST", "FC_OP1", "FC_OP2"),
                                      gen_call_function_raw("FPU_FPOP") >>)
      [] reg = 4 -> RawOrWarn(Esc1Group4[rm + 1])
      [] reg = 5 -> RawOrWarn(Esc1Group5[rm + 1])
      [] reg = 6 -> RawOrWarn(Esc1Group6[rm + 1])
      [] reg = 7 -> RawOrWarn(Esc1Group7[rm + 1])
  ELSE
    CASE reg = 0 -> dyn_push_load("FPU_FLD_F32", eaa)          \* FLD float
      [] reg = 1 -> LOG_WARN
      [] reg = 2 -> dyn_ea_call("FPU_FST_F32", eaa, FALSE)
      [] reg = 3 -> dyn_ea_call("FPU_FST_F32", eaa, TRUE)
      [] reg = 4 -> dyn_ea_call("FPU_FLDENV", eaa, FALSE)
      [] reg = 5 -> dyn_ea_call("FPU_FLDCW", eaa, FALSE)
      [] reg = 6 -> dyn_ea_call("FPU_FSTENV", eaa, FALSE)
      [] reg = 7 -> dyn_ea_call("FPU_FNSTCW", eaa, FALSE)

\* FCOMPP and FUCOMPP: ST(1) against ST(0); pops holds the FPU_FPOP calls of
\* the case itself
dyn_compare_st1_nopop(fn, pops) ==
  << gen_mov_word_to_reg("FC_OP2", "TOP"), gen_add_imm("FC_OP2", 1),
     gen_and_imm("FC_OP2", 7), gen_mov_word_to_reg("FC_OP1", "TOP"),
     gen_call_function_RR(fn, "FC_OP1", "FC_OP2") >>

dyn_compare_st1(fn, pops) ==
  << gen_mov_word_to_reg("FC_OP2", "TOP"), gen_add_imm("FC_OP2", 1),
     gen_and_imm("FC_OP2", 7), gen_mov_word_to_reg("FC_OP1", "TOP"),
     gen_call_function_RR(fn, "FC_OP1", "FC_OP2") >> \o
  [i \in 1..pops |-> gen_call_function_raw("FPU_FPOP")]

dyn_fpu_esc2(modrm, eaa) ==
  IF ModOf(modrm) = 3 THEN
    IF RegOf(modrm) = 5 /\ RmOf(modrm) = 1 THEN Emit(dyn_compare_st1("FPU_FUCOM", 2))
    ELSE LOG_WARN
  ELSE Emit(dyn_ea_arith("FPU_FLD_I32_EA", RegOf(modrm), eaa))

dyn_fpu_esc3(modrm, eaa) ==
  LET reg == RegOf(modrm)
      rm == RmOf(modrm) IN
  IF ModOf(modrm) = 3 THEN
    IF reg = 4 THEN
      CASE rm \in {0, 1} -> Nothing       \* FNENI, FNDIS: an error is logged
        [] rm = 2 -> Raw("FPU_FCLEX")
        [] rm = 3 -> Raw("FPU_FINIT")
        [] rm \in {4, 5} -> Nothing       \* FNSETPM, FRSTPM
        [] OTHER -> E_Exit_translate
    ELSE LOG_WARN
  ELSE
    CASE reg = 0 -> dyn_push_load("FPU_FLD_I32", eaa)          \* FILD
      [] reg = 2 -> dyn_ea_call("FPU_FST_I32", eaa, FALSE)
      [] reg = 3 -> dyn_ea_call("FPU_FST_I32", eaa, TRUE)
      [] reg = 5 ->                                            \* FLD 80 bits real
           Emit(<< gen_call_function_raw("FPU_PREP_PUSH"), dyn_fill_ea("FC_ADDR", eaa),
                   gen_call_function_R("FPU_FLD_F80", "FC_ADDR") >>)
      [] reg = 7 -> dyn_ea_call("FPU_FST_F80", eaa, TRUE)
      [] OTHER -> LOG_WARN

\* escape DC and DE, register forms: op STi,ST
Esc4Names == <<"FPU_FADD", "FPU_FMUL", "FPU_FCOM", "FPU_FCOM", "FPU_FSUBR", "FPU_FSUB", "FPU_FDIVR", "FPU_FDIV">>

dyn_fpu_esc4(modrm, eaa) ==
  LET reg == RegOf(modrm)
      rm == RmOf(modrm) IN
  IF ModOf(modrm) = 3 THEN
    Emit((IF reg \in {2, 3} THEN dyn_fpu_top(rm) ELSE dyn_fpu_top_swapped(rm)) \o
         << gen_call_function_RR(Esc4Names[reg + 1], "FC_OP1", "FC_OP2") >> \o
         (IF reg = 3 THEN << gen_call_function_raw("FPU_FPOP") >> ELSE <<>>))
  ELSE Emit(dyn_ea_arith("FPU_FLD_F64_EA", reg, eaa))

dyn_fpu_esc5(modrm, eaa) ==
  LET reg == RegOf(modrm)
      rm == RmOf(modrm)
      pop == << gen_call_function_raw("FPU_FPOP") >> IN
  IF ModOf(modrm) = 3 THEN
    CASE reg = 0 -> Emit(dyn_fpu_top(rm) \o << gen_call_function_R("FPU_FFREE", "FC_OP2") >>)
      [] reg = 1 -> Emit(dyn_fpu_top(rm) \o << gen_call_function_RR("FPU_FXCH", "FC_OP1", "FC_OP2") >>)
      [] reg = 2 -> Emit(dyn_fpu_top(rm) \o << gen_call_function_RR("FPU_FST", "FC_OP1", "FC_OP2") >>)
      [] reg = 3 -> Emit(dyn_fpu_top(rm) \o << gen_call_function_RR("FPU_FST", "FC_OP1", "FC_OP2") >> \o pop)
      [] reg = 4 -> Emit(dyn_fpu_top(rm) \o << gen_call_function_RR("FPU_FUCOM", "FC_OP1", "FC_OP2") >>)
      [] reg = 5 -> Emit(dyn_fpu_top(rm) \o << gen_call_function_RR("FPU_FUCOM", "FC_OP1", "FC_OP2") >> \o pop)
      [] OTHER ->   \* dyn_fpu_top() is emitted before the switch
           [code |-> dyn_fpu_top(rm), log |-> TRUE, abort |-> FALSE]
  ELSE
    CASE reg = 0 -> dyn_push_load("FPU_FLD_F64", eaa)
      [] reg = 1 -> LOG_WARN
      [] reg = 2 -> dyn_ea_call("FPU_FST_F64", eaa, FALSE)
      [] reg = 3 -> dyn_ea_call("FPU_FST_F64", eaa, TRUE)
      [] reg = 4 -> dyn_ea_call("FPU_FRSTOR", eaa, FALSE)
      [] reg = 6 -> dyn_ea_call("FPU_FSAVE", eaa, FALSE)
      [] reg = 7 ->                                            \* FNSTSW
           Emit(<< gen_mov_word_to_reg("FC_OP1", "TOP"),
                   gen_call_function_R("FPU_SET_TOP", "FC_OP1"),
                   dyn_fill_ea("FC_OP1", eaa),
                   gen_mov_word_to_reg("FC_OP2", "fpu.sw"),
                   gen_call_function_RR("mem_writew", "FC_OP1", "FC_OP2") >>)
      [] OTHER -> LOG_WARN

dyn_fpu_esc6(modrm, eaa) ==
  LET reg == RegOf(modrm)
      rm == RmOf(modrm)
      pop == << gen_call_function_raw("FPU_FPOP") >> IN
  IF ModOf(modrm) = 3 THEN
    CASE reg = 2 ->                                            \* FCOMP5
           Emit(dyn_fpu_top(rm) \o << gen_call_function_RR("FPU_FCOM", "FC_OP1", "FC_OP2") >> \o pop)
      [] reg = 3 ->                                            \* FCOMPP
           IF rm # 1 THEN LOG_WARN                             \* returns before the pop
           ELSE Emit(dyn_compare_st1("FPU_FCOM", 1) \o pop)
      [] OTHER ->
           Emit(dyn_fpu_top_swapped(rm) \o
                << gen_call_function_RR(Esc4Names[reg + 1], "FC_OP1", "FC_OP2") >> \o pop)
  ELSE Emit(dyn_ea_arith("FPU_FLD_I16_EA", reg, eaa))

dyn_fpu_esc7(modrm, eaa) ==
  LET reg == RegOf(modrm)
      rm == RmOf(modrm)
      pop == << gen_call_function_raw("FPU_FPOP") >> IN
  IF ModOf(modrm) = 3 THEN
    CASE reg = 0 -> Emit(dyn_fpu_top(rm) \o << gen_call_function_R("FPU_FFREE", "FC_OP2") >> \o pop)
      [] reg = 1 -> Emit(dyn_fpu_top(rm) \o << gen_call_function_RR("FPU_FXCH", "FC_OP1", "FC_OP2") >>)
      [] reg \in {2, 3} ->
           Emit(dyn_fpu_top(rm) \o << gen_call_function_RR("FPU_FST", "FC_OP1", "FC_OP2") >> \o pop)
      [] reg = 4 /\ rm = 0 ->                                  \* FNSTSW AX
           Emit(<< gen_mov_word_to_reg("FC_OP1", "TOP"),
                   gen_call_function_R("FPU_SET_TOP", "FC_OP1"),
                   gen_mov_word_to_reg("FC_OP1", "fpu.sw"),
                   MOV_REG_WORD16_FROM_HOST_REG("FC_OP1", "DRC_REG_EAX") >>)
      [] OTHER -> LOG_WARN
  ELSE
    CASE reg = 0 -> dyn_push_load("FPU_FLD_I16", eaa)
      [] reg = 1 -> LOG_WARN
      [] reg = 2 -> dyn_ea_call("FPU_FST_I16", eaa, FALSE)
      [] reg = 3 -> dyn_ea_call("FPU_FST_I16", eaa, TRUE)
      [] reg = 4 -> dyn_push_load("FPU_FBLD", eaa)
      [] reg = 5 -> dyn_push_load("FPU_FLD_I64", eaa)
      [] reg = 6 -> dyn_ea_call("FPU_FBST", eaa, TRUE)
      [] reg = 7 -> dyn_ea_call("FPU_FST_I64", eaa, TRUE)

(***************************************************************************)
(* The FPU helpers the emitted code calls                                  *)
(***************************************************************************)
TAG_Valid == "Valid"
TAG_Empty == "Empty"

\* Status word bits: invalid operation, stack fault, C0, C2, C3; TOP is bits 11..13
SwIE == 0
SwSF == 6
SwC0 == 8
SwC2 == 10
SwC3 == 14
SwTopShift == 2048
SetCC(sw, c3, c2, c0) ==
  LET a == IF c0 THEN SetBit(sw, SwC0) ELSE ClearBit(sw, SwC0)
      b == IF c2 THEN SetBit(a, SwC2) ELSE ClearBit(a, SwC2) IN
  IF c3 THEN SetBit(b, SwC3) ELSE ClearBit(b, SwC3)
StackFault(f) == [f EXCEPT !.sw = SetBit(SetBit(@, SwIE), SwSF)]

\* TOP = (TOP - 1) & 7 and TOP = (TOP + 1) & 7 without the mask
FPU_FDECSTP_nomask(f) == [f EXCEPT !.top = f.top - 1]

FPU_FDECSTP(f) == [f EXCEPT !.top = (f.top - 1) % 8]
FPU_FINCSTP(f) == [f EXCEPT !.top = (f.top + 1) % 8]
FPU_FFREE_top(f, st) == [f EXCEPT !.tags[f.top] = TAG_Empty]
FPU_FFREE(f, st) == [f EXCEPT !.tags[st] = TAG_Empty]

\* A push onto a slot in use and a pop of an empty slot raise the stack fault.
FPU_PREP_PUSH(f) ==
  LET top == (f.top - 1) % 8
      f1 == IF f.tags[top] # TAG_Empty THEN StackFault(f) ELSE f IN
  [f1 EXCEPT !.top = top, !.tags[top] = TAG_Valid]
FPU_FPOP(f) ==
  LET f1 == IF f.tags[f.top] = TAG_Empty THEN StackFault(f) ELSE f IN
  [f1 EXCEPT !.tags[f.top] = TAG_Empty, !.top = (f.top + 1) % 8]
FPU_SET_TOP_stale(f, val) == f
FPU_SET_TOP(f, val) ==
  [f EXCEPT !.sw = @ - ((@ \div SwTopShift) % 8) * SwTopShift + (val % 8) * SwTopShift]
FPU_FINIT(f) ==
  [f EXCEPT !.top = 0, !.tags = [i \in 0..8 |-> TAG_Empty], !.cw = 895, !.sw = 0]
FPU_FCLEX(f) == [f EXCEPT !.sw = (@ \div 256) * 256 - (IF TestBit(@, 15) THEN 32768 ELSE 0)]

\* A register content is a number of one byte.
ValMod == 256
Arith(fn, x, y) ==
  CASE fn \in {"FPU_FADD", "FPU_FADD_EA"} -> (x + y) % ValMod
    [] fn \in {"FPU_FMUL", "FPU_FMUL_EA"} -> (x * y) % ValMod
    [] fn \in {"FPU_FSUB", "FPU_FSUB_EA"} -> (x - y) % ValMod
    [] fn \in {"FPU_FSUBR", "FPU_FSUBR_EA"} -> (y - x) % ValMod
    [] fn \in {"FPU_FDIV", "FPU_FDIV_EA"} -> IF y = 0 THEN 0 ELSE x \div y
    [] fn \in {"FPU_FDIVR", "FPU_FDIVR_EA"} -> IF x = 0 THEN 0 ELSE y \div x
FPU_Arith(f, fn, op1, op2) == [f EXCEPT !.regs[op1] = Arith(fn, f.regs[op1], f.regs[op2])]
FPU_FCOM(f, st, other) ==
  IF f.tags[st] = TAG_Empty \/ f.tags[other] = TAG_Empty
  THEN [f EXCEPT !.sw = SetCC(@, TRUE, TRUE, TRUE)]
  ELSE [f EXCEPT !.sw = SetCC(@, f.regs[st] = f.regs[other], FALSE, f.regs[st] < f.regs[other])]
FPU_FXCH(f, st, other) ==
  [f EXCEPT !.regs[st] = f.regs[other], !.regs[other] = f.regs[st],
            !.tags[st] = f.tags[other], !.tags[other] = f.tags[st]]
FPU_FST(f, st, other) == [f EXCEPT !.regs[other] = f.regs[st], !.tags[other] = f.tags[st]]

\* The helpers without operands, on ST(0) (and ST(1))
LoadConstants == {"FPU_FLD1", "FPU_FLDL2T", "FPU_FLDL2E", "FPU_FLDPI", "FPU_FLDLG2", "FPU_FLDLN2", "FPU_FLDZ"}
Replacing == {"FPU_FCHS", "FPU_FABS", "FPU_F2XM1", "FPU_FSQRT", "FPU_FRNDINT", "FPU_FSIN", "FPU_FCOS"}
PoppingTwo == {"FPU_FYL2X", "FPU_FPATAN", "FPU_FYL2XP1"}
Pushing == {"FPU_FPTAN", "FPU_FXTRACT", "FPU_FSINCOS"}
TwoOperand == {"FPU_FPREM", "FPU_FPREM1", "FPU_FSCALE"}
Result(x) == (2 * x + 1) % ValMod
FPU_Nullary(f, fn) ==
  LET st1 == (f.top + 1) % 8 IN
  CASE fn = "FPU_FDECSTP" -> FPU_FDECSTP(f)
    [] fn = "FPU_FINCSTP" -> FPU_FINCSTP(f)
    [] fn = "FPU_PREP_PUSH" -> FPU_PREP_PUSH(f)
    [] fn = "FPU_FPOP" -> FPU_FPOP(f)
    [] fn = "FPU_FINIT" -> FPU_FINIT(f)
    [] fn = "FPU_FCLEX" -> FPU_FCLEX(f)
    [] fn \in LoadConstants ->
         LET f1 == FPU_PREP_PUSH(f) IN
         [f1 EXCEPT !.regs[f1.top] = IF fn = "FPU_FLDZ" THEN 0 ELSE 1]
    [] fn \in Replacing -> [f EXCEPT !.regs[f.top] = Result(@)]
    [] fn \in TwoOperand -> [f EXCEPT !.regs[f.top] = (@ + f.regs[st1]) % ValMod]
    [] fn \in PoppingTwo -> FPU_FPOP([f EXCEPT !.regs[st1] = (@ + f.regs[f.top]) % ValMod])
    [] fn \in Pushing ->
         LET f1 == FPU_PREP_PUSH([f EXCEPT !.regs[f.top] = Result(@)]) IN
         [f1 EXCEPT !.regs[f1.top] = 1]
    [] fn \in {"FPU_FTST", "FPU_FXAM"} ->
         [f EXCEPT !.sw = SetCC(@, f.regs[f.top] = 0, FALSE, f.tags[f.top] = TAG_Empty)]
    [] OTHER -> f                                              \* FPU_FNOP

(***************************************************************************)
(* Running the emitted code                                                *)
(***************************************************************************)
\* A host register after a call has no defined content.
Junk == 0 - 1
HostRegs == {"FC_OP1", "FC_OP2", "FC_ADDR"}

\* The operand sizes of the loading and storing helpers; the ten bytes of an
\* 80-bit real or a packed BCD are accessed as eight and two.
TempLoaders == {"FPU_FLD_F32_EA", "FPU_FLD_F64_EA", "FPU_FLD_I32_EA", "FPU_FLD_I16_EA"}
SlotLoaders == {"FPU_FLD_F32", "FPU_FLD_F64", "FPU_FLD_I32", "FPU_FLD_I16", "FPU_FLD_I64", "FPU_FBLD"}
Stores == {"FPU_FST_F32", "FPU_FST_F64", "FPU_FST_I32", "FPU_FST_I16", "FPU_FST_I64", "FPU_FST_F80", "FPU_FBST"}
OperandSize(fn) ==
  CASE fn \in {"FPU_FLD_I16_EA", "FPU_FLD_I16", "FPU_FST_I16"} -> 2
    [] fn \in {"FPU_FLD_F32_EA", "FPU_FLD_I32_EA", "FPU_FLD_F32", "FPU_FLD_I32", "FPU_FST_F32", "FPU_FST_I32"} -> 4
    [] fn \in {"FPU_FLD_F64_EA", "FPU_FLD_F64", "FPU_FLD_I64", "FPU_FST_F64", "FPU_FST_I64"} -> 8
    [] OTHER -> 10

FpuAfterMem(st, m1) == [st EXCEPT !.m = m1, !.out = IF m1.fault THEN "page_fault" ELSE @]
FpuReadRest(st1, address, w) ==
  IF w <= 8 \/ st1.out # "run" THEN st1
  ELSE [FpuAfterMem(st1, MemRead(st1.m, address + 8, 2)) EXCEPT !.m.val = st1.m.val \o @]
FpuRead(st, address, w) ==
  FpuReadRest(FpuAfterMem(st, MemRead(st.m, address, IF w <= 8 THEN w ELSE 8)), address, w)
Image(v, w) == [i \in 1..w |-> IF i = 1 THEN v ELSE 0]
FpuWriteRest(st1, address, w) ==
  IF w <= 8 \/ st1.out # "run" THEN st1
  ELSE FpuAfterMem(st1, MemWrite(st1.m, address + 8, 2, Image(0, 2)))
FpuWrite(st, address, w, v) ==
  FpuWriteRest(FpuAfterMem(st, MemWrite(st.m, address, IF w <= 8 THEN w ELSE 8,
                                         Image(v, IF w <= 8 THEN w ELSE 8))), address, w)
FpuStored(st1, slot) ==
  IF st1.out # "run" THEN st1 ELSE [st1 EXCEPT !.f.regs[slot] = st1.m.val[1]]
FpuLoaded(st, fn, address, slot) == FpuStored(FpuRead(st, address, OperandSize(fn)), slot)

\* FPU_FNSTCW: mem_writew(addr, fpu.cw)
FPU_FNSTCW(st, addr) == FpuAfterMem(st, mem_writew_inline(st.m, addr, WordBytes(st.f.cw)))
FpuControlWord(st1) == IF st1.out # "run" THEN st1 ELSE [st1 EXCEPT !.f.cw = WordOf(st1.m.val)]
FPU_FLDCW(st, addr) == FpuControlWord(FpuAfterMem(st, mem_readw_inline(st.m, addr)))
FpuSaved(st1, fn) ==
  IF fn = "FPU_FSAVE" /\ st1.out = "run" THEN [st1 EXCEPT !.f = FPU_FINIT(@)] ELSE st1

\* The arguments of a call that index fpu.regs and fpu.tags
SlotArgs(fn, v) ==
  CASE fn \in SlotLoaders -> {v[2]}
    [] fn \in TempLoaders \cup Stores \cup {"FPU_FLD_F80", "FPU_FNSTCW", "FPU_FSTENV", "FPU_FLDCW",
               "FPU_FLDENV", "FPU_FRSTOR", "FPU_FSAVE", "mem_writew", "FPU_SET_TOP"} -> {}
    [] OTHER -> {v[i] : i \in 1..Len(v)}

\* The stack slots a helper reads as numbers; the slot of a memory operand
\* (index 8) is no stack slot.
SlotReads(f, fn, v) ==
  CASE fn \in {"FPU_FST", "FPU_FCOM_EA"} \cup {ArithNamesEA[i] : i \in 1..8} -> {v[1]}
    [] fn \in {"FPU_FXCH", "FPU_FCOM", "FPU_FUCOM"} \cup {ArithNames[i] : i \in 1..8} -> {v[1], v[2]}
    [] fn \in Stores -> {f.top}
    [] OTHER -> {}
ReadsEmpty(f, fn, v) == \E slot \in SlotReads(f, fn, v) : f.tags[slot] = TAG_Empty

\* A call of the emitted code with the values of its argument registers; an
\* index outside the register file is a write outside fpu.regs, and a helper
\* that reads an Empty slot reports the stack fault instead of operating.
HelperCall(st, fn, v) ==
  CASE ~(SlotArgs(fn, v) \subseteq 0..7) -> [st EXCEPT !.out = "undefined"]
    [] ReadsEmpty(st.f, fn, v) -> [st EXCEPT !.f = StackFault(@)]
    [] fn \in TempLoaders \cup SlotLoaders \cup {"FPU_FLD_F80"} ->
         FpuLoaded(st, fn, v[1], IF fn \in TempLoaders THEN 8
                                 ELSE IF fn \in SlotLoaders THEN v[2] ELSE st.f.top)
    [] fn \in Stores -> FpuWrite(st, v[1], OperandSize(fn), st.f.regs[st.f.top])
    [] fn \in {"FPU_FNSTCW", "FPU_FSTENV", "FPU_FSAVE"} -> FpuSaved(FPU_FNSTCW(st, v[1]), fn)
    [] fn \in {"FPU_FLDCW", "FPU_FLDENV", "FPU_FRSTOR"} -> FPU_FLDCW(st, v[1])
    [] fn = "mem_writew" -> FpuAfterMem(st, mem_writew_inline(st.m, v[1], WordBytes(v[2] % 65536)))
    [] fn = "FPU_SET_TOP" -> [st EXCEPT !.f = FPU_SET_TOP(@, v[1])]
    [] fn = "FPU_FFREE" -> [st EXCEPT !.f = FPU_FFREE(@, v[1])]
    [] fn \in {"FPU_FCOM", "FPU_FUCOM"} -> [st EXCEPT !.f = FPU_FCOM(@, v[1], v[2])]
    [] fn = "FPU_FCOM_EA" -> [st EXCEPT !.f = FPU_FCOM(@, v[1], 8)]
    [] fn = "FPU_FXCH" -> [st EXCEPT !.f = FPU_FXCH(@, v[1], v[2])]
    [] fn = "FPU_FST" -> [st EXCEPT !.f = FPU_FST(@, v[1], v[2])]
    [] fn \in {"FPU_FADD", "FPU_FMUL", "FPU_FSUB", "FPU_FSUBR", "FPU_FDIV", "FPU_FDIVR"} ->
         [st EXCEPT !.f = FPU_Arith(@, fn, v[1], v[2])]
    [] fn \in {"FPU_FADD_EA", "FPU_FMUL_EA", "FPU_FSUB_EA", "FPU_FSUBR_EA", "FPU_FDIV_EA", "FPU_FDIVR_EA"} ->
         [st EXCEPT !.f = FPU_Arith(@, fn, v[1], 8)]
    [] OTHER -> [st EXCEPT !.f = FPU_Nullary(@, fn)]

\* One generated operation on the host registers, the FPU and memory; a call
\* is recorded with its arguments and leaves the argument registers undefined.
RunOp(st, op) ==
  CASE op.g = "mov_word_to_reg" ->
         [st EXCEPT !.h[op.r] = IF op.s = "TOP" THEN st.f.top ELSE st.f.sw]
    [] op.g = "add_imm" -> [st EXCEPT !.h[op.r] = @ + op.n]
    [] op.g = "and_imm" -> [st EXCEPT !.h[op.r] = @ % (op.n + 1)]
    [] op.g = "protect_reg" -> [st EXCEPT !.saved = st.h[op.r]]
    [] op.g = "restore_reg" -> [st EXCEPT !.h[op.r] = st.saved]
    [] op.g = "fill_ea" -> [st EXCEPT !.h[op.r] = op.n]
    [] op.g = "mov_reg_word16_from_host" -> [st EXCEPT !.ax = st.h[op.r] % 65536]
    [] op.g = "call" ->
         LET v == [i \in 1..Len(op.a) |-> st.h[op.a[i]]]
             st1 == [st EXCEPT !.calls = Append(@, [fn |-> op.s, v |-> v, top |-> st.f.top, tags |-> st.f.tags]),
                               !.h = [r \in HostRegs |-> Junk]] IN
         HelperCall(st1, op.s, v)

RECURSIVE RunCode(_, _, _)
RunCode(st, code, i) ==
  IF i > Len(code) \/ st.out # "run" THEN st
  ELSE RunCode(RunOp(st, code[i]), code, i + 1)

(***************************************************************************)
(* The recompiler: translating a block and running it                      *)
(***************************************************************************)
\* The FPU after depth pushes since FINIT, with a stale TOP field in the
\* status word and every register holding a value of its own.
FpuOf(depth) ==
  [top |-> (8 - depth) % 8,
   tags |-> [i \in 0..8 |-> IF i < 8 /\ i >= 8 - depth THEN TAG_Valid ELSE TAG_Empty],
   regs |-> [i \in 0..8 |-> 17 * (i + 1)],
   sw |-> 16640, cw |-> 895]

NoBlock == [instrs |-> <<>>, abort |-> FALSE, pc |-> 0]
NoRun == [esc |-> 0 - 1, out |-> "ok"]

\* The ModRM bytes after an escape opcode: every register form, and [disp16]
\* for each reg field; the operand on a mapped page or on one not present.
FpuModRMs == RegisterForms \cup MemoryForms
FpuEAs == {4088, 4096}
FpuEAsOf(modrm) == IF modrm >= 192 THEN {0} ELSE FpuEAs

\* FLD1 (D9 E8) and FSTP ST(0) (DD D8): a push and a pop
StackOps == {<<1, 232>>, <<5, 216>>}
MaxPrefix == 2

\* A block is some pushes and pops and one instruction after them.
CanTranslate ==
  /\ blk.pc = 0
  /\ ~blk.abort
  /\ Len(blk.instrs) <= MaxPrefix
  /\ \A i \in 1..Len(blk.instrs) : <<blk.instrs[i].esc, blk.instrs[i].modrm>> \in StackOps

Emitted(esc, modrm, eaa, t) ==
  /\ blk' = IF t.abort THEN [blk EXCEPT !.abort = TRUE]
            ELSE [blk EXCEPT !.instrs = Append(@, [esc |-> esc, modrm |-> modrm, eaa |-> eaa,
                                                   code |-> t.code, log |-> t.log])]
  /\ UNCHANGED <<memvars, cpuvars, fpu, run, twin, devvars>>

T_esc0 == CanTranslate /\ \E modrm \in FpuModRMs : \E eaa \in FpuEAsOf(modrm) : Emitted(0, modrm, eaa, dyn_fpu_esc0(modrm, eaa))
T_esc1 == CanTranslate /\ \E modrm \in FpuModRMs : \E eaa \in FpuEAsOf(modrm) : Emitted(1, modrm, eaa, dyn_fpu_esc1(modrm, eaa))
T_esc2 == CanTranslate /\ \E modrm \in FpuModRMs : \E eaa \in FpuEAsOf(modrm) : Emitted(2, modrm, eaa, dyn_fpu_esc2(modrm, eaa))
T_esc3 == CanTranslate /\ \E modrm \in FpuModRMs : \E eaa \in FpuEAsOf(modrm) : Emitted(3, modrm, eaa, dyn_fpu_esc3(modrm, eaa))
T_esc4 == CanTranslate /\ \E modrm \in FpuModRMs : \E eaa \in FpuEAsOf(modrm) : Emitted(4, modrm, eaa, dyn_fpu_esc4(modrm, eaa))
T_esc5 == CanTranslate /\ \E modrm \in FpuModRMs : \E eaa \in FpuEAsOf(modrm) : Emitted(5, modrm, eaa, dyn_fpu_esc5(modrm, eaa))
T_esc6 == CanTranslate /\ \E modrm \in FpuModRMs : \E eaa \in FpuEAsOf(modrm) : Emitted(6, modrm, eaa, dyn_fpu_esc6(modrm, eaa))
T_esc7 == CanTranslate /\ \E modrm \in FpuModRMs : \E eaa \in FpuEAsOf(modrm) : Emitted(7, modrm, eaa, dyn_fpu_esc7(modrm, eaa))

\* The host registers hold nothing defined when an instruction's code starts.
RunStart ==
  [f |-> fpu, h |-> [r \in HostRegs |-> Junk], saved |-> Junk, m |-> M0,
   ax |-> cpu.regw[0], calls |-> <<>>, out |-> "run"]
Retired(i, st) ==
  /\ fpu' = st.f
  /\ mem' = st.m.mem
  /\ cache' = st.m.cache
  /\ cpu' = [cpu EXCEPT !.regw[0] = st.ax]
  /\ blk' = [blk EXCEPT !.pc = @ + 1]
  /\ run' = [esc |-> i.esc, modrm |-> i.modrm, eaa |-> i.eaa, log |-> i.log,
             calls |-> st.calls, out |-> IF st.out = "run" THEN "ok" ELSE st.out,
             pre |-> fpu, premem |-> mem, preax |-> cpu.regw[0]]

\* The block runs instruction by instruction until it ends or one faults.
RunBlock ==
  /\ ~blk.abort
  /\ blk.pc < Len(blk.instrs)
  /\ run.out = "ok"
  /\ Retired(blk.instrs[blk.pc + 1], RunCode(RunStart, blk.instrs[blk.pc + 1].code, 1))
  /\ UNCHANGED <<tlb, pflags, acc, exec, nops, ins, twin, devvars>>

(***************************************************************************)
(* Specifications                                                          *)
(***************************************************************************)
\* The machine after start-up: RAM pages linked directly, no block cached.
Init ==
  /\ tlb = TlbOf([p \in Pages |-> "direct"])
  /\ pflags = [p \in Pages |-> {}]
  /\ mem = InitMem
  /\ cache = {}
  /\ acc = NoAcc
  /\ exec = NoExec
  /\ nops = 0
  /\ cpu = CpuOf(CHOOSE mode \in Modes : ~mode.pmode, 3)
  /\ ins = NoIns
  /\ fpu = FpuOf(0)
  /\ blk = NoBlock
  /\ twin = NoTwin
  /\ DevicesOff
  /\ run = NoRun

Next == Translate \/ Execute \/ MEM_SetPageHandler \/ GuestWrite

Spec == Init /\ [][Next]_vars

\* The accessors from every shape of the two TLB entries.
PageKinds == {"direct", "handler", "code", "rom", "readonly", "fault"}

InitAcc ==
  /\ \E kinds \in [Pages -> PageKinds] :
       /\ tlb = TlbOf(kinds)
       /\ pflags = [p \in Pages |-> IF kinds[p] = "code" THEN {PFLAG_HASCODE16} ELSE {}]
       /\ cache = {[start |-> p * MEM_PAGE_SIZE + 4095 * (1 - p), page |-> p,
                    bytes |-> CodeBytes(InitMem, p * MEM_PAGE_SIZE + 4095 * (1 - p))] :
                   p \in {q \in Pages : kinds[q] = "code"}}
  /\ mem = InitMem
  /\ acc = NoAcc
  /\ exec = NoExec
  /\ nops = 0
  /\ cpu = CpuOf(CHOOSE mode \in Modes : ~mode.pmode, 3)
  /\ ins = NoIns
  /\ fpu = FpuOf(0)
  /\ blk = NoBlock
  /\ twin = NoTwin
  /\ DevicesOff
  /\ run = NoRun

NextAcc == Read \/ Write \/ ReadChecked \/ WriteChecked

SpecAcc == InitAcc /\ [][NextAcc]_vars

\* One instruction of the 0F table from every mode, processor generation and
\* mapping of the two data pages.
InitCpu ==
  /\ \/ /\ \E kinds \in [Pages -> CpuPageKinds] : tlb = TlbOf(kinds)
        /\ \E mode \in Modes, arch \in Archs : cpu = CpuOf(mode, arch)
     \/ /\ tlb = TlbOf([p \in Pages |-> "direct"])
        /\ \E file \in RegFiles, cf \in BOOLEAN, zf \in BOOLEAN :
             /\ file = BitRegW \/ (cf /\ ~zf)
             /\ cpu = CpuWith(CpuOf(RealMode, Pentium), file, cf, zf)
  /\ pflags = [p \in Pages |-> {}]
  /\ mem = InitMem
  /\ cache = {}
  /\ acc = NoAcc
  /\ exec = NoExec
  /\ nops = 0
  /\ ins = NoIns
  /\ fpu = FpuOf(0)
  /\ blk = NoBlock
  /\ twin = NoTwin
  /\ DevicesOff
  /\ run = NoRun

NextCpu ==
  \/ I_0F_00 \/ I_0F_01 \/ I_0F_02 \/ I_0F_03 \/ I_0F_06 \/ I_0F_08 \/ I_0F_20
  \/ I_0F_31 \/ I_0F_b0 \/ I_0F_b1 \/ I_0F_b2 \/ I_0F_b4 \/ I_0F_b5 \/ I_0F_ba
  \/ I_0F_c0 \/ I_0F_c1 \/ I_0F_c8
  \/ I_0F_a3 \/ I_0F_ab \/ I_0F_b3 \/ I_0F_bb \/ I_0F_b6 \/ I_0F_b7 \/ I_0F_be
  \/ I_0F_bc \/ I_0F_bd

SpecCpu == InitCpu /\ [][NextCpu]_vars

\* Blocks of FPU instructions from every depth of the register stack, the
\* first data page mapped and the second not present.
InitFpu ==
  /\ tlb = TlbOf([p \in Pages |-> IF p = 0 THEN "direct" ELSE "fault"])
  /\ pflags = [p \in Pages |-> {}]
  /\ mem = InitMem
  /\ cache = {}
  /\ acc = NoAcc
  /\ exec = NoExec
  /\ nops = 0
  /\ cpu = CpuOf(CHOOSE mode \in Modes : ~mode.pmode, 3)
  /\ ins = NoIns
  /\ \E depth \in 0..7 : fpu = FpuOf(depth)
  /\ blk = NoBlock
  /\ twin = NoTwin
  /\ DevicesOff
  /\ run = NoRun

NextFpu ==
  \/ T_esc0 \/ T_esc1 \/ T_esc2 \/ T_esc3 \/ T_esc4 \/ T_esc5 \/ T_esc6 \/ T_esc7
  \/ RunBlock

SpecFpu == InitFpu /\ [][NextFpu]_vars

(***************************************************************************)
(* Byte accesses to RAM pages, next to the same accesses through pointers  *)
(***************************************************************************)
MaxSeq == 3
EqAddrs == {4095, 4096}
EqVals == {1, 2}

\* The machine of the twin: its own memory, every page linked directly.
TwinM == [M0 EXCEPT !.mem = twin.mem]

EqAccess(fn, address, m1, t1) ==
  /\ mem' = m1.mem
  /\ cache' = m1.cache
  /\ acc' = AccRecord(fn, address, 1, m1)
  /\ nops' = nops + 1
  /\ twin' = t1
  /\ UNCHANGED <<tlb, pflags, exec, cpuvars, fpuvars, devvars>>

ByteRead ==
  /\ nops < MaxSeq
  /\ \E address \in EqAddrs :
       EqAccess("read", address, mem_readb_inline(M0, address),
                [twin EXCEPT !.val = host_read(TwinM, HostPt, address, 1).val])

\* the path of the write is the kind of its one event
ByteWritten(address, v, m1) ==
  EqAccess("write", address, m1,
           [mem |-> host_write(TwinM, HostPt, address, 1, <<v>>).mem, val |-> twin.val,
            wrote |-> <<[a |-> address, v |-> v, k |-> m1.ev[1].k]>>])
ByteWrite ==
  /\ nops < MaxSeq
  /\ \E address \in EqAddrs, v \in EqVals :
       ByteWritten(address, v, mem_writeb_inline(M0, address, <<v>>))

\* RAM pages linked directly or through the RAM handler, in any combination
InitEq ==
  /\ \E kinds \in [Pages -> {"direct", "handler"}] : tlb = TlbOf(kinds)
  /\ pflags = [p \in Pages |-> {}]
  /\ mem = InitMem
  /\ cache = {}
  /\ acc = NoAcc
  /\ exec = NoExec
  /\ nops = 0
  /\ cpu = CpuOf(CHOOSE mode \in Modes : ~mode.pmode, 3)
  /\ ins = NoIns
  /\ fpu = FpuOf(0)
  /\ blk = NoBlock
  /\ twin = NoTwin
  /\ DevicesOff
  /\ run = NoRun

NextEq == ByteRead \/ ByteWrite \/ MEM_SetPageHandler

SpecEq == InitEq /\ [][NextEq]_vars



(***************************************************************************)
(* Properties of the memory accessors and the block cache                  *)
(***************************************************************************)
BlockFresh(b) == b.bytes = CodeBytes(mem, b.start)
TouchedPages == {PageOf(acc.a + i) : i \in 0 .. (acc.w - 1)}

AccDir == IF acc.fn \in {"read", "read_checked"} THEN "r" ELSE "w"
DirPtr(p) == IF AccDir = "r" THEN tlb.read[p] ELSE tlb.write[p]
DirHandler(p) == IF AccDir = "r" THEN tlb.readhandler[p] ELSE tlb.writehandler[p]
SinglePage(address, w) == PageOffset(address) + w <= MEM_PAGE_SIZE
EventsOn(k, p) == {i \in DOMAIN acc.ev : acc.ev[i].k = k /\ PageOf(acc.ev[i].a) = p}

\* A host access happens only through a non-null pointer.
NoNullDeref ==
  \A i \in DOMAIN acc.ev :
    /\ acc.ev[i].k # "null_deref"
    /\ acc.ev[i].k = "host" => DirPtr(PageOf(acc.ev[i].a)) # NullPt

C3_PathByWidth ==
  acc.fn # "none" =>
    /\ SinglePage(acc.a, acc.w) <=>
         (acc.ev[1].k \in {"host", "handler"} /\ acc.ev[1].a = acc.a /\ acc.ev[1].w = acc.w)
    /\ ~SinglePage(acc.a, acc.w) <=> acc.ev[1].k = "unaligned"
    /\ acc.w = 1 => acc.ev[1].k # "unaligned"

\* C3 happens: a checked quadword read at page offset 0xff9 took the fallback.
C3_Witness ==
  /\ acc.fn = "read_checked"
  /\ acc.w = 8
  /\ PageOffset(acc.a) = 4089
  /\ acc.ev[1].k = "unaligned"


(***************************************************************************)
(* Properties of the 0F table                                              *)
(***************************************************************************)
\* What the guest can observe of the CPU: the registers with the flags as
\* FillFlags() would store them.
Visible(c) == [FillFlags(c) EXCEPT !.lfCF = FALSE, !.lfZF = FALSE]
Ran == ins.op >= 0

\* The gates of the table, on the CPU before the instruction
ModeGate == ins.op \in {0, 2, 3} /\ (ins.pre.VM \/ ~ins.pre.pmode)
PrivilegeGate ==
  /\ ins.pre.pmode /\ ins.pre.cpl # 0
  /\ \/ ins.op = 0 /\ ~ins.pre.VM /\ RegField(ins.rm) \in {2, 3}      \* LLDT, LTR
     \/ ins.op = 1 /\ RegField(ins.rm) \in {2, 3}                      \* LGDT, LIDT
     \/ ins.op = 1 /\ ins.rm < 192 /\ RegField(ins.rm) = 7             \* INVLPG
     \/ ins.op = 6                                                     \* CLTS
     \/ ins.op \in {8, 9}                                              \* INVD, WBINVD
GenerationGate ==
  \/ ins.pre.arch < Intel486OldSlow /\ ins.op \in {8, 9, 176, 177, 192, 193} \cup 200..207
  \/ ins.pre.arch < Pentium /\ ins.op = 49
GateFails == ModeGate \/ PrivilegeGate \/ GenerationGate
StateKept == Visible(cpu) = Visible(ins.pre) /\ mem = ins.premem

\* C4: when the mode, privilege or processor-generation gate of a gated
\* opcode fails, the instruction ends with the illegal-opcode or the
\* general-protection condition and the CPU and memory are as before it.
C4_GateFailureLeavesState ==
  (Ran /\ GateFails) => (ins.out \in {"illegal_opcode", "GP"} /\ StateKept)

\* The gated instructions other than LLDT and LTR with a memory operand
C4_GateFirst ==
  (Ran /\ GateFails /\ ~(ins.op = 0 /\ ins.rm < 192 /\ RegField(ins.rm) \in {2, 3}))
    => (ins.out \in {"illegal_opcode", "GP"} /\ StateKept)

\* LLDT or LTR at privilege level 3 whose operand is on a page not present
C4_LoadBeforeGate ==
  /\ Ran /\ PrivilegeGate /\ ins.op = 0 /\ ins.rm < 192
  /\ ins.out = "page_fault"

\* A guest fault of the last translated FPU instruction leaves the FPU and
\* memory as they were.
C5_FpuFaultAtomic ==
  (run.esc >= 0 /\ run.out = "page_fault") => (fpu = run.pre /\ mem = run.premem)

\* C5: an instruction of the 0F table or a translated FPU memory load whose
\* memory access or helper call raises a guest fault leaves registers,
\* segment registers, flags, FPU TOP and tags and memory as before it.
C5_FaultAtomicity ==
  /\ (Ran /\ ins.out \in {"page_fault", "GP"}) => StateKept
  /\ C5_FpuFaultAtomic

\* The translator of the FPU escapes never calls E_Exit.
C6_TranslatorNeverAborts == ~blk.abort

\* C6: decoding 0F BA with any ModRM byte and translating any FPU escape ends
\* normally or with a guest-visible fault, never with E_Exit.
C6_NoHostAbort ==
  /\ Ran => ins.out # "E_Exit"
  /\ C6_TranslatorNeverAborts

\* C7: an FPU escape encoding whose translation only logs the "Unhandled"
\* warning produces the illegal-opcode condition when the block runs.
C7_UnhandledIsIllegalOpcode ==
  (run.esc >= 0 /\ run.log) => run.out = "illegal_opcode"

\* C8: 0F 20 /r with a register-direct ModRM byte in protected mode: at
\* privilege level 0 the register of the rm field receives the control
\* register of the reg field and nothing else changes; at another level a
\* protection fault is raised and nothing changes.
C8_MovFromControlRegister ==
  (Ran /\ ins.op = 32 /\ ins.rm >= 192 /\ ins.pre.pmode) =>
    IF ins.pre.cpl = 0
    THEN /\ ins.out = "ok"
         /\ cpu = [ins.pre EXCEPT !.regw[ins.rm % 8] = ins.pre.cr[(ins.rm \div 8) % 8].lo,
                                  !.regh[ins.rm % 8] = ins.pre.cr[(ins.rm \div 8) % 8].hi]
         /\ mem = ins.premem
    ELSE ins.out = "GP" /\ cpu = ins.pre /\ mem = ins.premem

\* 0F 20 D9 (MOV ECX,CR3) has run at privilege level 0 in protected mode
C8_Witness ==
  /\ Ran /\ ins.op = 32 /\ ins.rm = 217 /\ ins.pre.pmode /\ ins.pre.cpl = 0
  /\ ins.out = "ok" /\ cpu.regh[1] # ins.pre.regh[1]


(***************************************************************************)
(* Properties of the translated FPU instructions                           *)
(***************************************************************************)
RanFpu == run.esc >= 0
RECURSIVE Times(_, _, _)
\* n applications of FPU_FDECSTP (dec) or FPU_FINCSTP
Times(n, dec, f) ==
  IF n = 0 THEN f ELSE Times(n - 1, dec, IF dec THEN FPU_FDECSTP(f) ELSE FPU_FINCSTP(f))

\* C9: TOP stays in 0..7; FPU_FDECSTP sets TOP to (TOP - 1) mod 8 and
\* FPU_FINCSTP to (TOP + 1) mod 8, each undoes the other, eight applications
\* of either restore TOP, and neither changes a tag or a register.
C9_TopRotates ==
  /\ fpu.top \in 0..7
  /\ FPU_FDECSTP(fpu) = [fpu EXCEPT !.top = IF fpu.top = 0 THEN 7 ELSE fpu.top - 1]
  /\ FPU_FINCSTP(fpu) = [fpu EXCEPT !.top = IF fpu.top = 7 THEN 0 ELSE fpu.top + 1]
  /\ FPU_FINCSTP(FPU_FDECSTP(fpu)) = fpu
  /\ FPU_FDECSTP(FPU_FINCSTP(fpu)) = fpu
  /\ Times(8, TRUE, fpu) = fpu
  /\ Times(8, FALSE, fpu) = fpu
  /\ (RanFpu /\ run.esc = 1 /\ run.modrm = 246) =>
       fpu = [run.pre EXCEPT !.top = IF run.pre.top = 0 THEN 7 ELSE run.pre.top - 1]
  /\ (RanFpu /\ run.esc = 1 /\ run.modrm = 247) =>
       fpu = [run.pre EXCEPT !.top = IF run.pre.top = 7 THEN 0 ELSE run.pre.top + 1]

\* FDECSTP (D9 F6) has run after a push and a pop, with TOP at 0, and TOP is 7
C9_Witness ==
  /\ RanFpu /\ run.esc = 1 /\ run.modrm = 246 /\ blk.pc = 3
  /\ run.pre.top = 0 /\ fpu.top = 7

\* The register forms by how they hand ST(0) and ST(i) to the helper
RegForm == RanFpu /\ run.modrm >= 192
RunReg == RegOf(run.modrm)
RunRm == RmOf(run.modrm)
\* helper(ST(0), ST(i))
TopForms ==
  \/ run.esc = 0
  \/ run.esc = 1 /\ RunReg \in {1, 3}
  \/ run.esc = 4 /\ RunReg \in {2, 3}
  \/ run.esc = 5 /\ RunReg \in 1..5
  \/ run.esc = 6 /\ RunReg = 2
  \/ run.esc = 7 /\ RunReg \in 1..3
\* helper(ST(i), ST(0))
SwappedForms == run.esc \in {4, 6} /\ RunReg \notin {2, 3}
\* helper(ST(i)): FFREE, FFREEP
FreeForms == run.esc \in {5, 7} /\ RunReg = 0
\* FUCOMPP, FCOMPP: helper(ST(0), ST(1))
St1Forms == (run.esc = 2 /\ run.modrm = 233) \/ (run.esc = 6 /\ run.modrm = 217)
Slot(i) == (run.pre.top + i) % 8

\* C10: the helper of a translated register-form instruction receives the
\* slot (TOP + i) mod 8 for ST(i) and the slot TOP for ST(0), with the TOP
\* of the moment the instruction runs.
C10_SlotsFromRunTimeTop ==
  RegForm =>
    /\ TopForms => (Len(run.calls) >= 1 /\ run.calls[1].v = <<Slot(0), Slot(RunRm)>>)
    /\ SwappedForms => (Len(run.calls) >= 1 /\ run.calls[1].v = <<Slot(RunRm), Slot(0)>>)
    /\ FreeForms => (Len(run.calls) >= 1 /\ run.calls[1].v = <<Slot(RunRm)>>)
    /\ St1Forms => (Len(run.calls) >= 1 /\ run.calls[1].v = <<Slot(0), Slot(1)>>)
    /\ (TopForms \/ SwappedForms \/ FreeForms \/ St1Forms) => run.calls[1].top = run.pre.top

\* FADD ST,ST(5) (D8 C5) has run as the third instruction of a block, after
\* two pushes moved TOP from 0 to 6, and the helper received slots 6 and 3
C10_Witness ==
  /\ RegForm /\ run.esc = 0 /\ run.modrm = 197 /\ blk.pc = 3
  /\ blk.instrs[1].modrm = 232 /\ blk.instrs[2].modrm = 232
  /\ run.pre.top = 6 /\ run.calls[1].v = <<6, 3>>

\* The instructions that push: FLD, FILD and FBLD from memory, and FLD ST(i)
PushForms ==
  \/ run.modrm < 192 /\ <<run.esc, RunReg>> \in {<<1, 0>>, <<3, 0>>, <<3, 5>>, <<5, 0>>, <<7, 0>>, <<7, 4>>, <<7, 5>>}
  \/ run.modrm >= 192 /\ run.esc = 1 /\ RunReg = 0
StackFaultReported == TestBit(fpu.sw, SwIE) /\ TestBit(fpu.sw, SwSF)
\* a call that pushes onto a slot in use, pops an Empty slot or reads one
Overflows(c) == c.fn = "FPU_PREP_PUSH" /\ c.tags[(c.top - 1) % 8] # TAG_Empty
Underflows(c) ==
  \/ c.fn = "FPU_FPOP" /\ c.tags[c.top] = TAG_Empty
  \/ SlotArgs(c.fn, c.v) \subseteq 0..7 /\ ReadsEmpty([top |-> c.top, tags |-> c.tags], c.fn, c.v)

Checked == acc.fn \in {"read_checked", "write_checked"}
\* The access went through the host pointer of its page and nothing else.
PointerServed == acc.ev = <<Ev("host", AccDir, acc.a, acc.w, "-")>>
Performed ==
  IF AccDir = "r" THEN acc.val = LoadBytes(acc.before, acc.a, acc.w)
  ELSE mem = StoreBytes(acc.before, acc.a, acc.w, PatternVal(acc.w))

\* C12 as stated: a checked accessor returns true when the access was
\* performed, also through a non-null host pointer, and never raises.
C12_TrueWhenPerformed ==
  Checked => (~acc.fault /\ (PointerServed => acc.ret = TRUE))

\* C12, amended: a checked access within one page whose pointer is non-null
\* is performed through the pointer and returns false; no checked access
\* raises.
C12_FalseWhenPerformed ==
  Checked =>
    /\ ~acc.fault
    /\ (SinglePage(acc.a, acc.w) /\ DirPtr(PageOf(acc.a)) # NullPt) =>
         (PointerServed /\ Performed /\ acc.ret = FALSE)

\* A checked dword read through the read pointer returned false with the
\* four bytes of memory.
C12_Witness ==
  /\ acc.fn = "read_checked" /\ acc.w = 4 /\ acc.a = 4088
  /\ PointerServed /\ Performed /\ acc.ret = FALSE

\* A checked accessor reports that the access was not performed by returning true.
Failed == Checked /\ acc.ret = TRUE

C13_ReadOrFirstByte ==
  (Failed /\ (AccDir = "r" \/ (DirHandler(PageOf(acc.a)) = "fault" /\ DirPtr(PageOf(acc.a)) = NullPt)))
    => IF AccDir = "r" THEN acc.val = M0.val ELSE mem = acc.before

\* A checked word write at page offset 0xfff failed on its second page after
\* the byte on the first page was stored.
C13_PartialWrite ==
  /\ acc.fn = "write_checked" /\ acc.w = 2 /\ acc.a = 4095 /\ acc.ret = TRUE
  /\ mem # acc.before

C14_WitnessBack ==
  /\ acc.fn = "read" /\ acc.ev[1].k = "host" /\ twin.wrote # <<>>
  /\ twin.wrote[1].a = acc.a /\ twin.wrote[1].k = "handler"
  /\ acc.val = <<twin.wrote[1].v>>

(***************************************************************************)
(* Properties of the write across the page boundary                        *)
(***************************************************************************)
\* The machine the last access started on
Before == [M0 EXCEPT !.mem = acc.before, !.cache = acc.cachebefore]
\* A byte write after another, unless the first one raised
ThenByte(m1, address, val) == IF m1.fault THEN m1 ELSE mem_writeb_inline(m1, address, val)
\* The byte write of the low byte at the address, then of the high byte at
\* the next address
ByteByByte == ThenByte(mem_writeb_inline(Before, acc.a, <<ByteOf(PatternVal(2), 0)>>),
                       acc.a + 1, <<ByteOf(PatternVal(2), 1)>>)
StraddlingWordWrite == acc.fn = "write" /\ acc.w = 2 /\ PageOffset(acc.a) = 4095

BothForms == {2, 3, 171, 179, 187, 186, 176, 177, 192, 193, 182, 183, 190, 191, 188, 189}
Handler(op, s, rm, eaa, imm) ==
  CASE op = 2 -> CASE_0F_W_02(s, rm, eaa)
    [] op = 3 -> CASE_0F_W_03(s, rm, eaa)
    [] op = 171 -> CASE_0F_W_ab(s, rm, eaa)
    [] op = 179 -> CASE_0F_W_b3(s, rm, eaa)
    [] op = 187 -> CASE_0F_W_bb(s, rm, eaa)
    [] op = 186 -> CASE_0F_W_ba(s, rm, eaa, imm)
    [] op = 176 -> CASE_0F_B_b0(s, rm, eaa)
    [] op = 177 -> CASE_0F_W_b1(s, rm, eaa)
    [] op = 192 -> CASE_0F_B_c0(s, rm, eaa)
    [] op = 193 -> CASE_0F_W_c1(s, rm, eaa)
    [] op = 182 -> CASE_0F_W_b6(s, rm, eaa)
    [] op \in {183, 191} -> CASE_0F_W_b7(s, rm, eaa)
    [] op = 190 -> CASE_0F_W_be(s, rm, eaa)
    [] op = 188 -> CASE_0F_W_bc(s, rm, eaa)
    [] op = 189 -> CASE_0F_W_bd(s, rm, eaa)

\* the operand is a byte (Eb)
ByteOperand == ins.op \in {176, 192, 182, 190}
\* the bit index is in the register of the reg field
RegIndexed == ins.op \in {171, 179, 187}
\* The operand in memory before and after the instruction
OperandBefore ==
  IF ByteOperand THEN ins.premem[ins.eaa] ELSE WordOf(LoadBytes(ins.premem, ins.eaa, 2))
OperandAfter == IF ByteOperand THEN mem[ins.eaa] ELSE WordOf(LoadBytes(mem, ins.eaa, 2))
\* The register form of the instruction that ran: the same reg field, the
\* operand in CX or CL (DX or DL where the reg field names CX), which holds
\* what the memory operand held; every other register and the flags as they
\* were.
TwinRm == IF RegField(ins.rm) = 1 THEN 2 ELSE 1
TwinPre ==
  IF ByteOperand THEN SetB(ins.pre, TwinRm, OperandBefore)
  ELSE SetW(ins.pre, TwinRm, OperandBefore)
RegisterForm ==
  Handler(ins.op, InsState(TwinPre, [M0 EXCEPT !.mem = ins.premem]),
          192 + 8 * RegField(ins.rm) + TwinRm, 0, ins.imm)
TwinOperand ==
  IF ByteOperand THEN GetB(RegisterForm.c, TwinRm) ELSE GetW(RegisterForm.c, TwinRm)
\* A memory form retired, its bit index (if a register holds it) below 16
MemoryFormRan ==
  /\ Ran /\ ins.op \in BothForms /\ ins.rm < 192 /\ ins.out = "ok"
  /\ RegIndexed => GetW(ins.pre, RegField(ins.rm)) < 16

SetsCF == {163, 171, 179, 187, 186}
SetsZF == {176, 177, 188, 189}
\* One of them retired, and the flags of the instruction before it were
\* still deferred when it started.
AfterDeferred == Ran /\ ins.out = "ok" /\ ins.pre.lf # "t_UNKNOWN"
\* The flag the instruction does not set reads what the instruction before
\* it computed.
OtherFlagKept ==
  /\ ins.op \in SetsCF => get_ZF(cpu) = ins.pre.lfZF
  /\ ins.op \in SetsZF => get_CF(cpu) = ins.pre.lfCF

\* C18: after BT, BTS, BTR, BTC, GRP8 (which set CF) and CMPXCHG, BSF, BSR
\* (which set ZF), run while the flags of the preceding instruction are still
\* deferred, the flag the instruction does not set reads the value the
\* preceding instruction computed.
C18_OtherFlagsEager == AfterDeferred => OtherFlagKept

\* The same for the instructions that materialise the deferred flags before
\* they set their bit: all but BSF and BSR.
C18_FilledFirst == (AfterDeferred /\ ins.op \notin {188, 189}) => OtherFlagKept

\* BSF or BSR retired and CF reads the older value of the flag word, not the
\* value the preceding instruction computed.
C18_ScanDropsDeferred ==
  /\ AfterDeferred /\ ins.op \in {188, 189}
  /\ get_CF(cpu) = ins.pre.CF /\ get_CF(cpu) # ins.pre.lfCF

(***************************************************************************)
(* CMPXCHG                                                                 *)
(***************************************************************************)
\* cmpxchg Eb,Gb or Ew,Gw ran on a 486 or later
Cmpxchg == Ran /\ ins.op \in {176, 177} /\ ins.pre.arch >= Intel486OldSlow
CmpxchgReg(c, r) == IF ins.op = 176 THEN GetB(c, r) ELSE GetW(c, r)
\* The destination operand of the instruction that ran, in the registers c
\* and the memory m
CmpxchgDest(c, m) ==
  IF ins.rm >= 192 THEN CmpxchgReg(c, RmField(ins.rm))
  ELSE IF ins.op = 176 THEN m[ins.eaa] ELSE WordOf(LoadBytes(m, ins.eaa, 2))
Accumulator(c) == CmpxchgReg(c, 0)
CmpxchgEqual == Accumulator(ins.pre) = CmpxchgDest(ins.pre, ins.premem)
\* the destination is the accumulator register itself
DestIsAccumulator == ins.rm >= 192 /\ RmField(ins.rm) = 0
\* The writes the instruction issued, in order
CmpxchgWrites == SelectSeq(ins.ev, LAMBDA e : e.d = "w")
\* What the instruction leaves in the destination and in ZF
CmpxchgOutcome ==
  IF CmpxchgEqual
  THEN /\ CmpxchgDest(cpu, mem) = CmpxchgReg(ins.pre, RegField(ins.rm))
       /\ get_ZF(cpu)
  ELSE /\ Accumulator(cpu) = CmpxchgDest(ins.pre, ins.premem)
       /\ ~get_ZF(cpu)
       /\ CmpxchgDest(cpu, mem) = CmpxchgDest(ins.pre, ins.premem)
\* With a memory destination: one write, to the operand address, in both
\* cases; a write that raised left the accumulator as it was.
CmpxchgOneWrite ==
  /\ (ins.rm < 192 /\ ins.out = "ok") =>
       /\ Len(CmpxchgWrites) = 1
       /\ CmpxchgWrites[1].a = ins.eaa
       /\ CmpxchgWrites[1].w = (IF ins.op = 176 THEN 1 ELSE 2)
  /\ (ins.rm < 192 /\ ins.out # "ok") => Accumulator(cpu) = Accumulator(ins.pre)
  /\ ins.rm >= 192 => ins.ev = <<>>

\* C19 as stated: when the accumulator equals the destination, the
\* destination takes the source register's value, ZF is set and the
\* accumulator is unchanged; otherwise the accumulator takes the destination's
\* value, ZF is cleared and the destination keeps its value; a memory
\* destination is written exactly once either way, before the accumulator is
\* updated.
C19_AccumulatorUnchanged ==
  Cmpxchg =>
    /\ ins.out = "ok" =>
         /\ CmpxchgOutcome
         /\ CmpxchgEqual => Accumulator(cpu) = Accumulator(ins.pre)
    /\ CmpxchgOneWrite

\* C19: the same, the accumulator being unchanged in the equal case unless
\* it is itself the destination register (it then holds the source register's
\* value, as the destination does).
C19_Cmpxchg ==
  Cmpxchg =>
    /\ ins.out = "ok" =>
         /\ CmpxchgOutcome
         /\ (CmpxchgEqual /\ ~DestIsAccumulator) => Accumulator(cpu) = Accumulator(ins.pre)
    /\ CmpxchgOneWrite

\* cmpxchg [4096],BX with AX different from the word in memory: the word was
\* written back unchanged, AX holds it, ZF is clear.
C19_Witness ==
  /\ Cmpxchg /\ ins.op = 177 /\ ins.rm < 192 /\ ins.eaa = 4096 /\ ins.out = "ok"
  /\ ~CmpxchgEqual /\ Len(CmpxchgWrites) = 1
  /\ Accumulator(cpu) = WordOf(LoadBytes(mem, 4096, 2)) /\ ~get_ZF(cpu)

\* cmpxchg SI,BX with AX equal to SI: SI holds BX, AX is unchanged, ZF is set.
C19_WitnessEqual ==
  /\ Cmpxchg /\ ins.op = 177 /\ ins.rm = 192 + 8 * 3 + 6 /\ CmpxchgEqual
  /\ GetW(cpu, 6) = GetW(ins.pre, 3) /\ GetW(cpu, 0) = GetW(ins.pre, 0) /\ get_ZF(cpu)

\* cmpxchg AX,BX: the accumulator is the destination and holds BX afterwards.
C19_AccumulatorIsDestination ==
  /\ Cmpxchg /\ ins.op = 177 /\ ins.rm = 192 + 8 * 3 /\ ins.out = "ok"
  /\ GetW(cpu, 0) = GetW(ins.pre, 3) /\ GetW(cpu, 0) # GetW(ins.pre, 0)

(***************************************************************************)
(* BSF and BSR                                                             *)
(***************************************************************************)
\* BSF Gw,Ew or BSR Gw,Ew retired
Scan == Ran /\ ins.op \in {188, 189} /\ ins.out = "ok"
\* Its source operand and its destination register
ScanSource ==
  IF ins.rm >= 192 THEN GetW(ins.pre, RmField(ins.rm))
  ELSE WordOf(LoadBytes(ins.premem, ins.eaa, 2))
ScanDest(c) == GetW(c, RegField(ins.rm))
\* The index of the lowest and of the highest set bit of a word
IsLowestSet(v, d) == d \in 0..15 /\ TestBit(v, d) /\ \A j \in 0..(d - 1) : ~TestBit(v, j)
IsHighestSet(v, d) == d \in 0..15 /\ TestBit(v, d) /\ \A j \in (d + 1)..15 : ~TestBit(v, j)
\* How often the body of the scan loop ran
ScanSteps ==
  IF ins.op = 188 THEN BSF_scan(ScanSource, 0, 0).steps ELSE BSR_scan(ScanSource, 15, 0).steps

\* C20: BSF and BSR of a zero source set ZF and leave the destination
\* register as it was; of any other source they clear ZF and leave in the
\* destination the index (0..15) of the lowest (BSF) or highest (BSR) set bit
\* of the source, and the scan loop runs its body at most 15 times.
C20_BitScan ==
  Scan =>
    IF ScanSource = 0
    THEN get_ZF(cpu) /\ ScanDest(cpu) = ScanDest(ins.pre)
    ELSE /\ ~get_ZF(cpu)
         /\ ins.op = 188 => IsLowestSet(ScanSource, ScanDest(cpu))
         /\ ins.op = 189 => IsHighestSet(ScanSource, ScanDest(cpu))
         /\ ScanSteps <= 15

\* BSF of 8000h: the loop ran 15 times and the destination holds 15.
C20_Witness ==
  /\ Scan /\ ins.op = 188 /\ ScanSource = 32768
  /\ ScanDest(cpu) = 15 /\ ScanSteps = 15 /\ ~get_ZF(cpu)

\* BSR of 0001h: the loop ran 15 times and the destination holds 0.
C20_WitnessReverse ==
  /\ Scan /\ ins.op = 189 /\ ScanSource = 1
  /\ ScanDest(cpu) = 0 /\ ScanSteps = 15 /\ ~get_ZF(cpu)

\* BSR of zero into a register that held something else: ZF set, the
\* register as before.
C20_WitnessZero ==
  /\ Scan /\ ins.op = 189 /\ ScanSource = 0 /\ get_ZF(cpu) /\ ~get_ZF(ins.pre)
  /\ ScanDest(cpu) = ScanDest(ins.pre) /\ ScanDest(cpu) # 0

(***************************************************************************)
(* Pushes and pops in the emitted helper sequence                          *)
(***************************************************************************)
\* The helpers an instruction's code calls, in order
Calls(code) == SelectSeq(code, LAMBDA g : g.g = "call")
CallNames(code) == [k \in 1..Len(Calls(code)) |-> Calls(code)[k].s]
CountOf(names, fn) == Cardinality({k \in 1..Len(names) : names[k] = fn})
\* The pops are the last calls and a call that is no pop comes before them.
PopsComeLast(names) ==
  LET pops == CountOf(names, "FPU_FPOP") IN
  /\ \A k \in 1..Len(names) : names[k] = "FPU_FPOP" <=> k > Len(names) - pops
  /\ pops > 0 => Len(names) > pops
\* The instructions by what they do to the stack, from the opcode map:
\* FCOMPP (DE D9) and FUCOMPP (DA E9)
PopsTwice(esc, modrm) == <<esc, modrm>> \in {<<6, 217>>, <<2, 233>>}
\* FCOMP/FICOMP (/3 of D8, DA, DC, DE with memory; D8 D8+i, DC D8+i, DE D0+i),
\* FUCOMP (DD E8+i), FSTP (D9 /3, DD /3, DB /7, DF D0+i, DF D8+i), FISTP
\* (DB /3, DF /3, DF /7), FBSTP (DF /6), FFREEP (DF C0+i) and the register
\* forms of DE outside DE D8..DF
PopsOnce(esc, modrm) ==
  LET reg == RegOf(modrm) IN
  IF ModOf(modrm) = 3
  THEN \/ esc \in {0, 4} /\ reg = 3
       \/ esc \in {1, 5} /\ reg = 3
       \/ esc = 5 /\ reg = 5
       \/ esc = 6 /\ reg # 3
       \/ esc = 7 /\ reg \in {0, 2, 3}
  ELSE \/ esc \in {0, 2, 4, 6} /\ reg = 3
       \/ esc \in {1, 5} /\ reg = 3
       \/ esc = 3 /\ reg \in {3, 7}
       \/ esc = 7 /\ reg \in {3, 6, 7}
\* FLD m32/m64/m80, FILD m16/m32/m64, FBLD
MemoryLoad(esc, modrm) ==
  /\ ModOf(modrm) # 3
  /\ \/ esc \in {1, 5} /\ RegOf(modrm) = 0
     \/ esc = 3 /\ RegOf(modrm) \in {0, 5}
     \/ esc = 7 /\ RegOf(modrm) \in {0, 4, 5}
PopsOf(i) ==
  IF PopsTwice(i.esc, i.modrm) THEN 2 ELSE IF PopsOnce(i.esc, i.modrm) THEN 1 ELSE 0
PushPopShape(i) ==
  /\ PopsComeLast(CallNames(i.code))
  /\ CountOf(CallNames(i.code), "FPU_FPOP") = PopsOf(i)
  /\ MemoryLoad(i.esc, i.modrm) => CountOf(CallNames(i.code), "FPU_PREP_PUSH") = 1
  /\ (i.esc = 6 /\ i.modrm \in 216..223 /\ i.modrm # 217) => CallNames(i.code) = <<>>

\* C21: in the code emitted for an instruction the FPU_FPOP calls are the last
\* helper calls, after a data helper; there are two for FCOMPP and FUCOMPP,
\* one for every other popping form, none for any other instruction; a memory
\* load has one FPU_PREP_PUSH and no pop; DE D8+rm with rm other than 1 calls
\* no helper.
C21_PopsAfterOperation ==
  \A k \in 1..Len(blk.instrs) : PushPopShape(blk.instrs[k])

\* A block holds FCOMPP, whose code ends with two pops after FPU_FCOM, and a
\* block holds DE D8, which calls nothing.
C21_Witness ==
  \E k \in 1..Len(blk.instrs) :
    /\ blk.instrs[k].esc = 6 /\ blk.instrs[k].modrm = 217
    /\ CallNames(blk.instrs[k].code) = <<"FPU_FCOM", "FPU_FPOP", "FPU_FPOP">>

C21_WitnessNothing ==
  \E k \in 1..Len(blk.instrs) :
    /\ blk.instrs[k].esc = 6 /\ blk.instrs[k].modrm = 216
    /\ blk.instrs[k].code = <<>> /\ blk.instrs[k].log

(***************************************************************************)
(* FLD ST(i)                                                               *)
(***************************************************************************)
\* FLD ST(i) (D9 C0+i) has run
FldSti == RanFpu /\ run.esc = 1 /\ run.modrm \in 192..199
NewTop == (run.pre.top - 1) % 8

\* C22: FLD ST(i) calls FPU_PREP_PUSH and then FPU_FST with the slot
\* (TOP + i) mod 8 of the TOP before the push as source and the TOP after the
\* push as destination; where the source holds a value the new top of stack
\* holds a copy of what ST(i) held before, and no other register changes.
C22_FldCopiesOldSti ==
  FldSti =>
    /\ Len(run.calls) = 2
    /\ run.calls[1].fn = "FPU_PREP_PUSH" /\ run.calls[1].top = run.pre.top
    /\ run.calls[2].fn = "FPU_FST"
    /\ run.calls[2].v = <<Slot(RunRm), NewTop>>
    /\ run.calls[2].top = NewTop
    /\ fpu.top = NewTop
    /\ run.calls[2].tags[Slot(RunRm)] = TAG_Valid =>
         /\ fpu.regs[NewTop] = run.pre.regs[Slot(RunRm)]
         /\ fpu.tags[NewTop] = TAG_Valid
         /\ \A k \in 0..7 : k # NewTop => fpu.regs[k] = run.pre.regs[k]

\* FLD ST(0) after two pushes: TOP went from 6 to 5 and slot 5 holds what
\* slot 6 held, which differs from what slot 5 held.
C22_Witness ==
  /\ FldSti /\ run.modrm = 192 /\ blk.pc = 3 /\ run.pre.top = 6 /\ fpu.top = 5
  /\ fpu.regs[5] = run.pre.regs[6] /\ run.pre.regs[5] # run.pre.regs[6]
  /\ run.pre.tags[5] = TAG_Empty /\ fpu.tags[5] = TAG_Valid

\* FLD ST(2): the source slot is not the old top.
C22_WitnessSt2 ==
  /\ FldSti /\ run.modrm = 194 /\ run.calls[2].tags[Slot(2)] = TAG_Valid
  /\ fpu.regs[NewTop] = run.pre.regs[Slot(2)] /\ run.pre.regs[Slot(2)] # run.pre.regs[NewTop]

(***************************************************************************)
(* FNSTSW                                                                  *)
(***************************************************************************)
\* FNSTSW m16 (DD /7) and FNSTSW AX (DF E0) have run to their end
FnstswM == RanFpu /\ run.esc = 5 /\ run.modrm < 192 /\ RunReg = 7 /\ run.out = "ok"
FnstswAX == RanFpu /\ run.esc = 7 /\ run.modrm = 224 /\ run.out = "ok"
\* The TOP field of a status word (bits 11..13) and the rest of it
TopField(sw) == (sw \div 2048) % 8
SwRest(sw) == sw - TopField(sw) * 2048
\* The FPU but for the TOP field of its status word
FpuKept ==
  /\ fpu.top = run.pre.top /\ fpu.tags = run.pre.tags /\ fpu.regs = run.pre.regs
  /\ fpu.cw = run.pre.cw /\ SwRest(fpu.sw) = SwRest(run.pre.sw)
StoredWord == WordOf(LoadBytes(mem, run.eaa, 2))

\* C23: the word FNSTSW m16 stores and the word FNSTSW AX leaves in AX carry
\* the TOP of the moment the instruction runs in bits 11..13 and the other
\* bits of the status word unchanged; FNSTSW m16 changes no other byte of
\* memory and not AX, FNSTSW AX changes no memory, and neither changes TOP, a
\* tag, a register or the control word.
C23_StoredTopIsCurrent ==
  /\ FnstswM =>
       /\ TopField(StoredWord) = run.pre.top
       /\ SwRest(StoredWord) = SwRest(run.pre.sw)
       /\ \A a \in Addrs : a \notin {run.eaa, run.eaa + 1} => mem[a] = run.premem[a]
       /\ cpu.regw[0] = run.preax
       /\ FpuKept
  /\ FnstswAX =>
       /\ TopField(cpu.regw[0]) = run.pre.top
       /\ SwRest(cpu.regw[0]) = SwRest(run.pre.sw)
       /\ mem = run.premem
       /\ FpuKept

\* FNSTSW AX after two pushes from an empty stack: AX carries TOP = 6 while
\* the status word still carried 0.
C23_Witness ==
  /\ FnstswAX /\ blk.pc = 3 /\ run.pre.top = 6
  /\ TopField(run.pre.sw) = 0 /\ TopField(cpu.regw[0]) = 6 /\ cpu.regw[0] # run.preax

\* FNSTSW [4088] after a push: the word in memory carries the new TOP.
C23_WitnessMemory ==
  /\ FnstswM /\ run.eaa = 4088 /\ blk.pc = 2 /\ TopField(StoredWord) = run.pre.top
  /\ run.pre.top # TopField(run.pre.sw) /\ StoredWord # WordOf(LoadBytes(run.premem, 4088, 2))

(***************************************************************************)
(* FFREE and FFREEP                                                        *)
(***************************************************************************)
\* FFREE ST(i) (DD C0+i) and FFREEP ST(i) (DF C0+i) have run
Ffree == RanFpu /\ run.esc = 5 /\ run.modrm \in 192..199
Ffreep == RanFpu /\ run.esc = 7 /\ run.modrm \in 192..199
RunCallNames == [k \in 1..Len(run.calls) |-> run.calls[k].fn]

\* C24: FFREE ST(i) leaves the tag of slot (TOP + i) mod 8 Empty and TOP,
\* every other tag, every register, the status and the control word as they
\* were; FFREEP ST(i) frees the same slot and then pops once: the old top is
\* Empty as well, TOP is one higher, no other tag and no register changes.
C24_FfreeFrame ==
  /\ Ffree =>
       /\ RunCallNames = <<"FPU_FFREE">>
       /\ fpu = [run.pre EXCEPT !.tags[Slot(RunRm)] = TAG_Empty]
  /\ Ffreep =>
       /\ RunCallNames = <<"FPU_FFREE", "FPU_FPOP">>
       /\ fpu.top = Slot(1)
       /\ fpu.tags = [run.pre.tags EXCEPT ![Slot(RunRm)] = TAG_Empty, ![Slot(0)] = TAG_Empty]
       /\ fpu.regs = run.pre.regs /\ fpu.cw = run.pre.cw

\* FFREE ST(2) freed a slot that held a value and is not the top.
C24_Witness ==
  /\ Ffree /\ run.modrm = 194 /\ run.pre.tags[Slot(2)] = TAG_Valid
  /\ fpu.tags[Slot(2)] = TAG_Empty /\ fpu.tags[Slot(0)] = TAG_Valid /\ fpu.top = run.pre.top

\* FFREEP ST(2) freed slot TOP + 2 and popped the top, both in use before.
C24_WitnessPop ==
  /\ Ffreep /\ run.modrm = 194 /\ run.pre.tags[Slot(2)] = TAG_Valid
  /\ run.pre.tags[Slot(0)] = TAG_Valid /\ run.pre.tags[Slot(1)] = TAG_Valid
  /\ fpu.tags[Slot(2)] = TAG_Empty /\ fpu.tags[Slot(0)] = TAG_Empty
  /\ fpu.tags[Slot(1)] = TAG_Valid /\ fpu.top = Slot(1)

(***************************************************************************)
(* X86PageEntry (paging.h): a page table entry as bit-fields               *)
(***************************************************************************)
\* A 32-bit value is a pair of 16-bit halves (Dword).  The bit-fields of the
\* little-endian layout with their position and width.
PteShift == [p |-> 0, wr |-> 1, us |-> 2, pwt |-> 3, pcd |-> 4, a |-> 5, d |-> 6,
             pat |-> 7, g |-> 8, avl |-> 9, base |-> 12]
PteWidth == [p |-> 1, wr |-> 1, us |-> 1, pwt |-> 1, pcd |-> 1, a |-> 1, d |-> 1,
             pat |-> 1, g |-> 1, avl |-> 3, base |-> 20]

\* (value >> k) & (2^w - 1) of a 32-bit value, w at most 20 and k + w at most 32
ShrMask(value, k, w) ==
  LET above == IF k + w > 16 THEN k + w - 16 ELSE 0 IN
  ((value.lo \div 2 ^ k) + (value.hi % 2 ^ above) * 2 ^ (16 - k)) % 2 ^ w
\* x << k in 32 bits, for x below 2^20 and k at most 12
Shl32(x, k) == Dword((x % 2 ^ (16 - k)) * 2 ^ k, (x \div 2 ^ (16 - k)) % 65536)
\* The bitwise OR of a set of 16-bit values and of a set of 32-bit values
Or16(S) ==
  LET bit(i) == IF \E v \in S : TestBit(v, i) THEN 2 ^ i ELSE 0 IN
  bit(0) + bit(1) + bit(2) + bit(3) + bit(4) + bit(5) + bit(6) + bit(7) + bit(8) +
  bit(9) + bit(10) + bit(11) + bit(12) + bit(13) + bit(14) + bit(15)
Or32(S) == Dword(Or16({v.lo : v \in S}), Or16({v.hi : v \in S}))

\* An assignment to a bit-field keeps the low bits that fit the field.
PteAssign(e, f, x) == [e EXCEPT ![f] = x % 2 ^ PteWidth[f]]

\* X86PageEntry::set
X86PageEntry_set_avl2(e, value) ==
  [f \in DOMAIN PteShift |-> ShrMask(value, PteShift[f], IF f = "avl" THEN 2 ELSE PteWidth[f])]

X86PageEntry_set(e, value) ==
  [f \in DOMAIN PteShift |-> ShrMask(value, PteShift[f], PteWidth[f])]

\* X86PageEntry::get: value = 0, then value |= field << shift for every field
X86PageEntry_get(e) ==
  Or32({Dword(0, 0)} \cup {Shl32(e[f], PteShift[f]) : f \in DOMAIN PteShift})

\* The values given to set: every single bit, no bit, every bit, and two
\* patterns; the values assigned to fields: within and beyond the width.
PteValues ==
  {Dword(2 ^ i, 0) : i \in 0..15} \cup {Dword(0, 2 ^ i) : i \in 0..15} \cup
  {Dword(0, 0), Dword(65535, 65535), Dword(42405, 23130), Dword(4660, 43981)}
PteFieldValues(f) == IF f = "base" THEN {0, 1, 74565, 1048575} ELSE {0, 1, 5, 7}
MaxPteOps == 2

\* e.set(value); the entry remembers what get() returns afterwards
PteSet ==
  /\ pte.n < MaxPteOps
  /\ \E value \in PteValues :
       pte' = [e |-> X86PageEntry_set(pte.e, value), n |-> pte.n + 1, op |-> "set",
               value |-> value, f |-> "", before |-> pte.e,
               got |-> X86PageEntry_get(X86PageEntry_set(pte.e, value))]
  /\ UNCHANGED <<memvars, cpuvars, fpuvars, twin, serial, ipx>>

\* e.field = x
PteSetField ==
  /\ pte.n < MaxPteOps
  /\ \E f \in DOMAIN PteShift : \E x \in PteFieldValues(f) :
       pte' = [e |-> PteAssign(pte.e, f, x), n |-> pte.n + 1, op |-> "field",
               value |-> Dword(x, 0), f |-> f, before |-> pte.e,
               got |-> X86PageEntry_get(PteAssign(pte.e, f, x))]
  /\ UNCHANGED <<memvars, cpuvars, fpuvars, twin, serial, ipx>>

\* The machine of Init with no device installed
MachineAtRest ==
  /\ tlb = TlbOf([p \in Pages |-> "direct"])
  /\ pflags = [p \in Pages |-> {}]
  /\ mem = InitMem
  /\ cache = {}
  /\ acc = NoAcc
  /\ exec = NoExec
  /\ nops = 0
  /\ cpu = CpuOf(CHOOSE mode \in Modes : ~mode.pmode, 3)
  /\ ins = NoIns
  /\ fpu = FpuOf(0)
  /\ blk = NoBlock
  /\ twin = NoTwin
  /\ run = NoRun

\* A value-initialised entry
InitPte ==
  /\ MachineAtRest
  /\ pte = [e |-> [f \in DOMAIN PteShift |-> 0], n |-> 0, op |-> "new",
            value |-> Dword(0, 0), f |-> "", before |-> [f \in DOMAIN PteShift |-> 0],
            got |-> Dword(0, 0)]
  /\ serial = NoSerial
  /\ ipx = NoIpx

NextPte == PteSet \/ PteSetField

SpecPte == InitPte /\ [][NextPte]_vars

\* Bits from..to of a 32-bit value, read bit by bit
BitOf(value, i) == IF i < 16 THEN TestBit(value.lo, i) ELSE TestBit(value.hi, i - 16)
RECURSIVE BitsOf(_, _, _)
BitsOf(value, from, to) ==
  IF to < from THEN 0
  ELSE (IF BitOf(value, to) THEN 2 ^ (to - from) ELSE 0) + BitsOf(value, from, to - 1)
\* The bits of the field f in a 32-bit value
FieldBits(value, f) == BitsOf(value, PteShift[f], PteShift[f] + PteWidth[f] - 1)

\* C25: after set(v), get() returns v and the fields hold p = bit 0, wr =
\* bit 1, us = bit 2, pwt = bit 3, pcd = bit 4, a = bit 5, d = bit 6, pat =
\* bit 7, g = bit 8, avl = bits 9..11 and base = bits 12..31 of v; after an
\* assignment to one field every other field is as before and get() returns
\* the former value with the bits of that field replaced.
C25_SetGetRoundTrip ==
  /\ pte.op = "set" =>
       /\ pte.got = pte.value
       /\ pte.e.p = BitsOf(pte.value, 0, 0) /\ pte.e.wr = BitsOf(pte.value, 1, 1)
       /\ pte.e.us = BitsOf(pte.value, 2, 2) /\ pte.e.pwt = BitsOf(pte.value, 3, 3)
       /\ pte.e.pcd = BitsOf(pte.value, 4, 4) /\ pte.e.a = BitsOf(pte.value, 5, 5)
       /\ pte.e.d = BitsOf(pte.value, 6, 6) /\ pte.e.pat = BitsOf(pte.value, 7, 7)
       /\ pte.e.g = BitsOf(pte.value, 8, 8) /\ pte.e.avl = BitsOf(pte.value, 9, 11)
       /\ pte.e.base = BitsOf(pte.value, 12, 31)
  /\ pte.op = "field" =>
       /\ \A f \in DOMAIN PteShift : f # pte.f => pte.e[f] = pte.before[f]
       /\ \A f \in DOMAIN PteShift :
            FieldBits(pte.got, f) = IF f = pte.f THEN pte.e[f]
                                    ELSE FieldBits(X86PageEntry_get(pte.before), f)
       /\ X86PageEntry_set(pte.e, pte.got) = pte.e

\* set(0xFFFFFFFF) filled every field and get() returns 0xFFFFFFFF.
C25_Witness ==
  /\ pte.op = "set" /\ pte.value = Dword(65535, 65535) /\ pte.got = Dword(65535, 65535)
  /\ pte.e.base = 1048575 /\ pte.e.avl = 7 /\ pte.e.g = 1 /\ pte.e.p = 1

\* avl = 5 assigned to an entry set to 0xFFFFFFFF: get() returns 0xFFFFFBFF.
C25_WitnessField ==
  /\ pte.op = "field" /\ pte.f = "avl" /\ pte.e.avl = 5 /\ pte.before.avl = 7
  /\ pte.got = Dword(65535 - 1024, 65535)

(***************************************************************************)
(* CDirectSerial (directserial.cpp): the receive state machine             *)
(***************************************************************************)
\* Event types, receive states and the modem lines read by updateMSR
SerialEvents == {"POLLING", "RX", "TX", "THR"}
RxStates == {"D_RX_IDLE", "D_RX_BLOCKED", "D_RX_WAIT", "D_RX_FASTWAIT"}
ModemStatus == {{}, {"CTS"}, {"DSR", "CD"}, {"CTS", "DSR", "RI", "CD"}}

\* Bounds: the rxdelay values tried, the bytes the host port may hold when it
\* is asked, and the TX and THR events pending at once
MaxRetry == 3
MaxHost == 2
MaxPending == 1
RxDelayLimit == 10000
\* the rxdelay: option: absent (-1), a value within the limit, or beyond it
RxDelayOptions == {-1, RxDelayLimit + 1} \cup (0..MaxRetry)

\* setEvent adds an event of the type; removeEvent removes those pending
removeEvent_none(ev, type) == ev
setEvent(ev, type) == [ev EXCEPT ![type] = @ + 1]
removeEvent(ev, type) == [ev EXCEPT ![type] = 0]

\* rx_retry >= rx_retry_max
TimedOut_late(retry, max) == retry > max
TimedOut(retry, max) == retry >= max

\* doReceive: true when the host port had a byte, which goes to the UART
doReceive(bytes) == bytes > 0

\* case SERIAL_POLLING_EVENT.  s holds rx_state, rx_retry, rx_retry_max, the
\* pending events ev and the number of bytes read from the host port; can is
\* the answer of CanReceiveByte, bytes what the host port holds.
PollingEvent(s, can, bytes) ==
  LET s1 == [s EXCEPT !.ev = setEvent(s.ev, "POLLING")] IN
  CASE s.rx_state = "D_RX_IDLE" ->
         IF can
         THEN IF doReceive(bytes)
              THEN [s1 EXCEPT !.rx_state = "D_RX_WAIT", !.read = 1,
                              !.ev = setEvent(s1.ev, "RX")]
              ELSE s1
         ELSE [s1 EXCEPT !.rx_state = "D_RX_BLOCKED", !.ev = setEvent(s1.ev, "RX")]
    [] s.rx_state = "D_RX_BLOCKED" ->
         IF ~can
         THEN IF TimedOut(s.rx_retry + 1, s.rx_retry_max)
              THEN IF doReceive(bytes)
                   THEN [s1 EXCEPT !.rx_retry = 0, !.rx_state = "D_RX_WAIT",
                                   !.read = bytes,
                                   !.ev = setEvent(removeEvent(s1.ev, "RX"), "RX")]
                   ELSE [s1 EXCEPT !.rx_retry = 0, !.rx_state = "D_RX_IDLE",
                                   !.ev = removeEvent(s1.ev, "RX")]
              ELSE [s1 EXCEPT !.rx_retry = s.rx_retry + 1]
         ELSE IF doReceive(bytes)
              THEN [s1 EXCEPT !.rx_retry = 0, !.rx_state = "D_RX_FASTWAIT", !.read = 1,
                              !.ev = setEvent(removeEvent(s1.ev, "RX"), "RX")]
              ELSE [s1 EXCEPT !.rx_retry = 0, !.rx_state = "D_RX_IDLE",
                              !.ev = removeEvent(s1.ev, "RX")]
    [] OTHER -> s1

\* case SERIAL_RX_EVENT
RxEvent(s, can, bytes) ==
  IF s.rx_state = "D_RX_IDLE" THEN [s EXCEPT !.error = TRUE]
  ELSE IF can
       THEN IF doReceive(bytes)
            THEN IF s.rx_state = "D_RX_WAIT"
                 THEN [s EXCEPT !.rx_retry = 0, !.read = 1, !.ev = setEvent(s.ev, "RX")]
                 ELSE [s EXCEPT !.rx_retry = 0, !.read = 1, !.rx_state = "D_RX_FASTWAIT",
                                !.ev = setEvent(s.ev, "RX")]
            ELSE [s EXCEPT !.rx_retry = 0, !.rx_state = "D_RX_IDLE"]
       ELSE [s EXCEPT !.rx_state = "D_RX_BLOCKED", !.ev = setEvent(s.ev, "RX")]

\* case SERIAL_TX_EVENT
TxEvent(s, can, bytes) ==
  IF s.rx_state = "D_RX_IDLE" /\ can /\ doReceive(bytes)
  THEN [s EXCEPT !.rx_state = "D_RX_WAIT", !.read = 1, !.ev = setEvent(s.ev, "RX")]
  ELSE s

\* case SERIAL_THR_EVENT
ThrEvent(s) == [s EXCEPT !.ev = setEvent(s.ev, "TX")]

\* CDirectSerial::handleUpperEvent
handleUpperEvent(s, type, can, bytes) ==
  CASE type = "POLLING" -> PollingEvent(s, can, bytes)
    [] type = "RX" -> RxEvent(s, can, bytes)
    [] type = "TX" -> TxEvent(s, can, bytes)
    [] type = "THR" -> ThrEvent(s)

\* CDirectSerial::CDirectSerial with a port that opens
CDirectSerial(rxdelay) ==
  [installed |-> TRUE, rx_state |-> "D_RX_IDLE", rx_retry |-> 0,
   rx_retry_max |-> IF rxdelay >= 0 /\ rxdelay <= RxDelayLimit THEN rxdelay ELSE 0,
   ev |-> setEvent([t \in SerialEvents |-> 0], "POLLING"),
   read |-> 0, error |-> FALSE, msr |-> {},
   type |-> "none", can |-> FALSE, bytes |-> 0,
   before |-> "D_RX_IDLE", retry_before |-> 0, ticks |-> 0]

\* A pending event of the port comes due and is handled.  The handled event
\* leaves the queue; type, can, bytes, before and retry_before remember the
\* call, ticks counts the polling ticks handled in a row in D_RX_BLOCKED.
HandleEvent ==
  /\ serial.installed
  /\ \E type \in SerialEvents, can \in BOOLEAN, bytes \in 0..MaxHost, status \in ModemStatus :
       /\ serial.ev[type] > 0
       /\ type = "THR" => serial.ev["TX"] < MaxPending
       /\ LET due == [serial EXCEPT !.ev[type] = @ - 1, !.read = 0]
              s2 == handleUpperEvent(due, type, can, bytes)
          IN serial' = [s2 EXCEPT
               !.msr = IF type = "THR" THEN @ ELSE status,
               !.type = type, !.can = can, !.bytes = bytes,
               !.before = serial.rx_state, !.retry_before = serial.rx_retry,
               !.ticks = IF type = "POLLING" /\ serial.rx_state = "D_RX_BLOCKED"
                         THEN serial.ticks + 1
                         ELSE IF s2.rx_state = "D_RX_BLOCKED" /\ serial.rx_state = "D_RX_BLOCKED"
                              THEN serial.ticks ELSE 0]
  /\ UNCHANGED <<memvars, cpuvars, fpuvars, twin, pte, ipx>>

\* CDirectSerial::transmitByte: the UART hands over a byte of the guest
transmitByte ==
  /\ serial.installed
  /\ \E first \in BOOLEAN :
       LET type == IF first THEN "THR" ELSE "TX" IN
       /\ serial.ev[type] < MaxPending
       /\ serial' = [serial EXCEPT !.ev = setEvent(serial.ev, type), !.type = "none"]
  /\ UNCHANGED <<memvars, cpuvars, fpuvars, twin, pte, ipx>>

InitSerial ==
  /\ MachineAtRest
  /\ pte = NoPte
  /\ ipx = NoIpx
  /\ \E rxdelay \in RxDelayOptions : serial = CDirectSerial(rxdelay)

NextSerial == HandleEvent \/ transmitByte

SpecSerial == InitSerial /\ [][NextSerial]_vars

Handled(type) == serial.installed /\ serial.type = type

\* C26: after every handled event an RX event is pending exactly when
\* rx_state is not D_RX_IDLE and a polling event is pending; no RX event is
\* handled in D_RX_IDLE, so the internal error branch is never taken.
C26_RxEventIffNotIdle ==
  serial.installed =>
    /\ serial.ev["RX"] = (IF serial.rx_state = "D_RX_IDLE" THEN 0 ELSE 1)
    /\ serial.ev["POLLING"] = 1
    /\ ~(Handled("RX") /\ serial.before = "D_RX_IDLE")
    /\ ~serial.error

\* The polling tick that times out with nothing to read took the pending RX
\* event away and left the port idle.
C26_Witness ==
  /\ Handled("POLLING") /\ serial.before = "D_RX_BLOCKED" /\ ~serial.can
  /\ serial.bytes = 0 /\ serial.rx_state = "D_RX_IDLE" /\ serial.ev["RX"] = 0

\* An RX event handled in D_RX_FASTWAIT with no room: blocked, RX pending.
C26_WitnessRx ==
  /\ Handled("RX") /\ serial.before = "D_RX_FASTWAIT" /\ ~serial.can
  /\ serial.rx_state = "D_RX_BLOCKED" /\ serial.ev["RX"] = 1

Max1(n) == IF n < 1 THEN 1 ELSE n
BlockedTick == Handled("POLLING") /\ serial.before = "D_RX_BLOCKED" /\ ~serial.can

\* C27: a polling tick in D_RX_BLOCKED with no room in the UART increments
\* rx_retry; at the tick where it reaches rx_retry_max (the first tick when
\* rx_retry_max is 0) rx_retry is 0 again, the pending RX event was removed
\* and every byte of the host port was read, leaving D_RX_WAIT with a new RX
\* event if a byte was read and D_RX_IDLE with none otherwise.  rx_retry is 0
\* outside D_RX_BLOCKED, and the port is blocked for at most
\* max(1, rx_retry_max) polling ticks in a row.
C27_BlockedTimeout ==
  serial.installed =>
    /\ BlockedTick /\ serial.retry_before + 1 < serial.rx_retry_max =>
         /\ serial.rx_retry = serial.retry_before + 1
         /\ serial.rx_state = "D_RX_BLOCKED" /\ serial.read = 0
    /\ BlockedTick /\ serial.retry_before + 1 >= serial.rx_retry_max =>
         /\ serial.rx_retry = 0
         /\ serial.read = serial.bytes
         /\ serial.rx_state = (IF serial.bytes > 0 THEN "D_RX_WAIT" ELSE "D_RX_IDLE")
         /\ serial.ev["RX"] = (IF serial.bytes > 0 THEN 1 ELSE 0)
         /\ serial.ticks = Max1(serial.rx_retry_max)
    /\ serial.rx_state # "D_RX_BLOCKED" => serial.rx_retry = 0
    /\ serial.rx_state = "D_RX_BLOCKED" =>
         serial.ticks = serial.rx_retry /\ serial.ticks < Max1(serial.rx_retry_max)
    /\ serial.ticks <= Max1(serial.rx_retry_max)

\* The third tick of a port with rxdelay 3 times out and reads two bytes.
C27_Witness ==
  /\ BlockedTick /\ serial.rx_retry_max = 3 /\ serial.retry_before = 2
  /\ serial.rx_retry = 0 /\ serial.read = 2 /\ serial.rx_state = "D_RX_WAIT"

\* With rxdelay 0 the first tick times out.
C27_WitnessFirstTick ==
  /\ BlockedTick /\ serial.rx_retry_max = 0 /\ serial.retry_before = 0
  /\ serial.ticks = 1 /\ serial.rx_state = "D_RX_IDLE"

\* A tick below the limit only counts.
C27_WitnessCounting ==
  /\ BlockedTick /\ serial.rx_retry_max = 3 /\ serial.rx_retry = 2
  /\ serial.rx_state = "D_RX_BLOCKED"

(***************************************************************************)
(* IPX (ipx.cpp): the open-socket table and the pending ECBs               *)
(***************************************************************************)
SOCKTABLESIZE == 150
DynamicFirst == 16386  \* 0x4002
DynamicLast == 32767   \* 0x7fff

\* swapByte: ((sockNum >> 8) | (sockNum << 8)) in 16 bits
swapByte(sockNum) == (sockNum \div 256) + (sockNum % 256) * 256

\* opensockets[i], the table being a sequence of SOCKTABLESIZE words
SocketAt(t, i) == t[i + 1]

\* sockInUse
sockInUse(t, count, sockNum) == \E i \in 0..(count - 1) : SocketAt(t, i) = sockNum

\* The byte at offset b of the table on a little-endian host
TableByte(t, b) == IF b % 2 = 0 THEN SocketAt(t, b \div 2) % 256 ELSE SocketAt(t, b \div 2) \div 256

\* memcpy(&opensockets[i], &opensockets[i+1], n): n bytes, not n entries, are
\* copied between overlapping objects, which the language leaves undefined.
\* Copying by ascending addresses moves each source byte two bytes down;
\* copying by descending addresses reads bytes it has already overwritten, so
\* every destination byte ends as the first byte above the range of its parity.
CopyOrders == {"ascending", "descending"}
memcpy_entries(t, i, n, order) ==
  [k \in 1..SOCKTABLESIZE |-> IF k - 1 >= i /\ k < SOCKTABLESIZE THEN t[k + 1] ELSE t[k]]
memcpy(t, i, n, order) ==
  LET dst == 2 * i
      from(b) == IF b < dst \/ b >= dst + n THEN b
                 ELSE IF order = "ascending" THEN b + 2
                 ELSE IF (dst + n - b) % 2 = 0 THEN dst + n ELSE dst + n + 1
  IN [k \in 1..SOCKTABLESIZE |->
        TableByte(t, from(2 * (k - 1))) + 256 * TableByte(t, from(2 * (k - 1) + 1))]

\* while(sockInUse(sockAlloc) && (sockAlloc < 0x7fff)) sockAlloc++
RECURSIVE DynamicSocket(_, _, _)
DynamicSocket(t, count, sockAlloc) ==
  IF sockInUse(t, count, sockAlloc) /\ sockAlloc < DynamicLast
  THEN DynamicSocket(t, count, sockAlloc + 1)
  ELSE sockAlloc

\* OpenSocket: x holds socketCount, opensockets, reg_al and reg_dx
OpenSocket(x) ==
  LET sockNum == swapByte(x.reg_dx)
      opened(s) == [x EXCEPT !.opensockets[x.socketCount + 1] = s,
                             !.socketCount = x.socketCount + 1,
                             !.reg_al = 0, !.reg_dx = swapByte(s)]
  IN IF x.socketCount >= SOCKTABLESIZE THEN [x EXCEPT !.reg_al = 254]
     ELSE IF sockNum = 0
          THEN opened(DynamicSocket(x.opensockets, x.socketCount, DynamicFirst))
          ELSE IF sockInUse(x.opensockets, x.socketCount, sockNum)
               THEN [x EXCEPT !.reg_al = 255]
               ELSE opened(sockNum)

\* The ECBs of a list that are not of the socket
NotOfSocket(list, sockNum) == SelectSeq(list, LAMBDA e : e.mysocket # sockNum)

\* CloseSocket
CloseSocket(x, order) ==
  LET sockNum == swapByte(x.reg_dx)
      found == {i \in 0..(x.socketCount - 2) : SocketAt(x.opensockets, i) = sockNum}
      first == CHOOSE i \in found : \A j \in found : i <= j
  IN IF ~sockInUse(x.opensockets, x.socketCount, sockNum) THEN x
     ELSE [x EXCEPT
            !.opensockets = IF found = {} THEN @
                            ELSE memcpy(@, first, SOCKTABLESIZE - (first + 1), order),
            !.socketCount = @ - 1,
            !.ECBList = NotOfSocket(@, sockNum)]

\* new ECBClass: the ECB goes to the end of ECBList
ECBClass(x, addr, socket) ==
  [x EXCEPT !.ECBList = Append(@, [sn |-> x.sn, addr |-> addr, iuflag |-> "AVAILABLE",
                                    mysocket |-> socket, databuffer |-> <<>>,
                                    written |-> FALSE]),
            !.sn = @ + 1]

\* handleIpxRequest case 0x0004: listen for packet
ListenForPacket(x, addr, socket) ==
  LET x1 == ECBClass(x, addr, socket)
      last == Len(x1.ECBList)
  IN IF ~sockInUse(x.opensockets, x.socketCount, socket)
     THEN [x EXCEPT !.reg_al = 255, !.sn = @ + 1]
     ELSE [x1 EXCEPT !.reg_al = 0, !.ECBList[last].iuflag = "LISTENING"]

\* handleIpxRequest case 0x0005: schedule IPX event
ScheduleEvent(x, addr, socket) ==
  LET x1 == ECBClass(x, addr, socket) IN
  [x1 EXCEPT !.ECBList[Len(x1.ECBList)].iuflag = "AESCOUNT"]

\* ECBClass::writeDataBuffer then ECBClass::NotifyESR of the k-th pending ECB:
\* with a data buffer it always leaves ECBList for the end of ESRList
Without(list, k) == SubSeq(list, 1, k - 1) \o SubSeq(list, k + 1, Len(list))
NotifyESR_stays(x, k, buffer) == x
NotifyESR(x, k, buffer) ==
  [x EXCEPT !.ECBList = Without(@, k),
            !.ESRList = Append(@, [x.ECBList[k] EXCEPT !.databuffer = buffer,
                                                      !.written = TRUE])]

\* receivePacket: packet holds the destination socket, whether the destination
\* host and port are all ones, and the bytes
Listening_any(e, useSocket) == e.iuflag = "LISTENING"
Listening(e, useSocket) == e.iuflag = "LISTENING" /\ e.mysocket = useSocket
receivePacket(x, packet) ==
  LET useSocket == packet.socket
      hits == {k \in 1..Len(x.ECBList) : Listening(x.ECBList[k], useSocket)}
      k0 == CHOOSE k \in hits : \A j \in hits : k <= j
  IN IF useSocket = 2 /\ packet.broadcast THEN [x EXCEPT !.pingAcks = @ + 1]
     ELSE IF hits = {} THEN x
     ELSE NotifyESR(x, k0, packet.data)

\* Bounds: the calls made, the sockets opened by number, the ECB addresses
MaxIpxOps == 3
NamedSockets == {2, 17733}
EcbAddrs == {1}
Packets ==
  {[socket |-> s, broadcast |-> b, data |-> d] :
     s \in {2, DynamicFirst}, b \in BOOLEAN, d \in {<<1>>, <<2, 3>>}} \
  {[socket |-> s, broadcast |-> TRUE, data |-> <<2, 3>>] : s \in {2, DynamicFirst}}
\* The tables a run starts from: this many sockets opened by OpenSocket with
\* DX = 0, which allocates 0x4002 upwards
StartCounts == {0, 2, 77, SOCKTABLESIZE}
TableAfterOpens(n) ==
  [k \in 1..SOCKTABLESIZE |-> IF k <= n THEN DynamicFirst + k - 1 ELSE 0]
\* the sockets closed: a named one and the first two allocated ones
CloseInputs == {17733, DynamicFirst, DynamicFirst + 1}

IpxCore(x) == [socketCount |-> x.socketCount, opensockets |-> x.opensockets,
               ECBList |-> x.ECBList, ESRList |-> x.ESRList, pingAcks |-> x.pingAcks]

IpxStep(op, arg, x2) ==
  /\ ipx.installed
  /\ ipx.n < MaxIpxOps
  /\ ipx' = [x2 EXCEPT !.n = ipx.n + 1, !.op = op, !.arg = arg, !.before = IpxCore(ipx)]
  /\ UNCHANGED <<memvars, cpuvars, fpuvars, twin, pte, serial>>

IpxOpenSocket ==
  \E s \in NamedSockets \cup {0} :
    IpxStep("open", s, OpenSocket([ipx EXCEPT !.reg_dx = swapByte(s)]))

IpxCloseSocket ==
  \E s \in CloseInputs, order \in CopyOrders :
    IpxStep("close", s, CloseSocket([ipx EXCEPT !.reg_dx = swapByte(s)], order))

IpxListen ==
  \E addr \in EcbAddrs, s \in {2, DynamicFirst} :
    IpxStep("listen", s, ListenForPacket(ipx, addr, s))

IpxSchedule ==
  \E addr \in EcbAddrs :
    IpxStep("schedule", DynamicFirst, ScheduleEvent(ipx, addr, DynamicFirst))

IpxReceive ==
  \E packet \in Packets : IpxStep("receive", packet, receivePacket(ipx, packet))

InitIpx ==
  /\ MachineAtRest
  /\ pte = NoPte
  /\ serial = NoSerial
  /\ \E n \in StartCounts :
       ipx = [installed |-> TRUE, socketCount |-> n, opensockets |-> TableAfterOpens(n),
              reg_al |-> 0, reg_dx |-> 0, ECBList |-> <<>>, ESRList |-> <<>>, sn |-> 0,
              pingAcks |-> 0, n |-> 0, op |-> "none", arg |-> 0,
              before |-> [socketCount |-> n, opensockets |-> TableAfterOpens(n),
                          ECBList |-> <<>>, ESRList |-> <<>>, pingAcks |-> 0]]

NextIpx == IpxOpenSocket \/ IpxCloseSocket \/ IpxListen \/ IpxSchedule \/ IpxReceive

SpecIpx == InitIpx /\ [][NextIpx]_vars

\* The sockets of a table, how often a table holds one, and what it holds
OpenSockets(x) == {SocketAt(x.opensockets, i) : i \in 0..(x.socketCount - 1)}
Occurrences(x, s) ==
  Cardinality({i \in 0..(x.socketCount - 1) : SocketAt(x.opensockets, i) = s})
TableOf(x) == [i \in 0..(x.socketCount - 1) |-> SocketAt(x.opensockets, i)]
TableUnique == \A s \in OpenSockets(ipx) : Occurrences(ipx, s) = 1
IpxDid(op) == ipx.installed /\ ipx.op = op

\* What OpenSocket returned and did to the table it found
OpenSocketOutcome ==
  IpxDid("open") =>
    IF ipx.before.socketCount = SOCKTABLESIZE
    THEN ipx.reg_al = 254 /\ TableOf(ipx) = TableOf(ipx.before)
    ELSE IF ipx.arg # 0 /\ ipx.arg \in OpenSockets(ipx.before)
         THEN ipx.reg_al = 255 /\ TableOf(ipx) = TableOf(ipx.before)
         ELSE LET s == swapByte(ipx.reg_dx) IN
              /\ ipx.reg_al = 0
              /\ ipx.socketCount = ipx.before.socketCount + 1
              /\ \A i \in 0..(ipx.before.socketCount - 1) :
                   SocketAt(ipx.opensockets, i) = SocketAt(ipx.before.opensockets, i)
              /\ SocketAt(ipx.opensockets, ipx.before.socketCount) = s
              /\ s \notin OpenSockets(ipx.before)
              /\ IF ipx.arg = 0 THEN s >= DynamicFirst ELSE s = ipx.arg

\* C28: the table holds at most 150 sockets and none twice; OpenSocket
\* returns 0xFE with the table unchanged when 150 are open, 0xFF with the
\* table unchanged when the requested socket is open, and otherwise adds the
\* socket and returns 0, a request for socket 0 getting a number from 0x4002
\* up that was not open, returned in DX.
C28_SocketTable ==
  ipx.installed =>
    /\ ipx.socketCount <= SOCKTABLESIZE
    /\ TableUnique
    /\ OpenSocketOutcome

\* C29: after CloseSocket of an open socket it is gone, every other socket
\* that was open is in the table exactly once and the count is one less;
\* CloseSocket of a socket that is not open changes nothing.
C29_CloseSocket ==
  IpxDid("close") =>
    IF ipx.arg \in OpenSockets(ipx.before)
    THEN /\ ipx.arg \notin OpenSockets(ipx)
         /\ \A s \in OpenSockets(ipx.before) \ {ipx.arg} : Occurrences(ipx, s) = 1
         /\ ipx.socketCount = ipx.before.socketCount - 1
    ELSE IpxCore(ipx) = ipx.before

\* The pending ECBs listening on a socket, in the order they were posted
ListeningOn(x, s) ==
  {k \in 1..Len(x.ECBList) : x.ECBList[k].iuflag = "LISTENING" /\ x.ECBList[k].mysocket = s}
IsPing(packet) == packet.socket = 2 /\ packet.broadcast
Received == IpxDid("receive")

\* C30: a received packet that is not a broadcast ping goes to the earliest
\* posted pending ECB listening on its socket: that ECB gets a copy of the
\* packet and moves to the end of the notification queue, every other ECB is
\* as before; with no listener nothing changes.  A broadcast ping is
\* acknowledged and changes no ECB.
C30_ReceivePacket ==
  Received =>
    LET packet == ipx.arg
        was == ipx.before
        hits == ListeningOn(was, packet.socket)
    IN /\ TableOf(ipx) = TableOf(was)
       /\ IF IsPing(packet)
          THEN /\ ipx.pingAcks = was.pingAcks + 1
               /\ ipx.ECBList = was.ECBList /\ ipx.ESRList = was.ESRList
          ELSE /\ ipx.pingAcks = was.pingAcks
               /\ IF hits = {}
                  THEN ipx.ECBList = was.ECBList /\ ipx.ESRList = was.ESRList
                  ELSE \E k \in hits :
                         /\ \A j \in hits : k <= j
                         /\ ipx.ECBList = Without(was.ECBList, k)
                         /\ Len(ipx.ESRList) = Len(was.ESRList) + 1
                         /\ SubSeq(ipx.ESRList, 1, Len(was.ESRList)) = was.ESRList
                         /\ ipx.ESRList[Len(ipx.ESRList)] =
                              [was.ECBList[k] EXCEPT !.databuffer = packet.data,
                                                     !.written = TRUE]

\* An ECB listens on socket 0x4002 behind a scheduled event of the same
\* socket; the packet went to the listener and the event is still pending.
C30_Witness ==
  /\ Received /\ ipx.arg.socket = DynamicFirst /\ ~ipx.arg.broadcast
  /\ Len(ipx.before.ECBList) = 2 /\ ListeningOn(ipx.before, DynamicFirst) = {2}
  /\ Len(ipx.ECBList) = 1 /\ ipx.ECBList[1].iuflag = "AESCOUNT"
  /\ Len(ipx.ESRList) = 1 /\ ipx.ESRList[1].databuffer = <<2, 3>>

\* Two listeners on the same socket: the earlier one is served.
C30_WitnessEarliest ==
  /\ Received /\ ListeningOn(ipx.before, DynamicFirst) = {1, 2}
  /\ ipx.arg.socket = DynamicFirst
  /\ Len(ipx.ECBList) = 1 /\ ipx.ECBList[1].sn = ipx.before.ECBList[2].sn
  /\ ipx.ESRList[1].sn = ipx.before.ECBList[1].sn

\* A broadcast ping with an ECB listening on socket 2: acknowledged, not handed over.
C30_WitnessPing ==
  /\ Received /\ IsPing(ipx.arg) /\ ListeningOn(ipx.before, 2) # {}
  /\ ipx.pingAcks = 1 /\ ipx.ESRList = <<>>

\* A packet for a socket nobody listens on is dropped.
C30_WitnessDropped ==
  /\ Received /\ ~IsPing(ipx.arg) /\ ListeningOn(ipx.before, ipx.arg.socket) = {}
  /\ ipx.before.ECBList # <<>> /\ ipx.ECBList = ipx.before.ECBList

====
